---- MODULE Spec2Model ----
(***************************************************************************)
(* Verification model of the PyAuthServer replication core.                *)
(*                                                                         *)
(* The module holds several specifications over one set of variables:      *)
(*   SpecConn    network/connection.py: two Connection objects exchanging  *)
(*               datagrams in the receive -> send order of                 *)
(*               SimpleNetwork.step, with the calls of one replicable on   *)
(*               top                                                       *)
(*   SpecFlag    network/flag_serialiser.py: pack, then unpack             *)
(*   SpecChan    network/streams/replication/channels.py: attribute        *)
(*               replication from a server channel to a client channel     *)
(*   SpecMove    game_system/replicables.py: a player's moves, the         *)
(*               server's jitter buffer and the corrections                *)
(*   SpecScene   network_2/scene.py: a Scene adding and removing           *)
(*               replicables with static and pooled ids                    *)
(*   SpecHand    network/streams/handshake.py: the handshake managers of   *)
(*               a server and a client over a lossy link                   *)
(*   SpecRequests  the same managers while no time passes                  *)
(*   SpecLoss    network/connection.py: the first sends of a connection    *)
(*               pair that loses datagrams repeatedly                      *)
(*   SpecThrottle  the same pair with one loss before the wrap and a       *)
(*               reliable packet in flight while the loss is handled       *)
(*   SpecSilent  the same pair when nothing arrives at the local end       *)
(*   SpecLate    the same pair over a network that delivers one datagram   *)
(*               a second time, later                                      *)
(*   SpecInputs  game_system/replicables.py: the client's inputs of a long *)
(*               session                                                   *)
(*   SpecRegister  network/replicable.py: instances of Replicable          *)
(*               registering under ids of the class's graph                *)
(*   SpecRewind  bge_network/gameloop.py: the server loop saving pawn       *)
(*               states and executing callbacks in the past                *)
(*   SpecTick    bge_network/gameloop.py: the phases of the ticks of a     *)
(*               game loop while datagrams arrive at its socket            *)
(*   SpecAuth    network/connection_interfaces.py: the first handshake     *)
(*   SpecDestroy  network_2/scene.py: Scene.on_destroyed with controllers  *)
(*   SpecOwner   network/replicable.py: possession and uppermost           *)
(*   SpecSceneChannel  the scene channels of both modules on that scene    *)
(*   SpecRpc     network/streams/replication/channels.py: a server scene   *)
(*               channel, its replicable channels, its shadow channels     *)
(*               and the inbound calls                                     *)
(* Each specification leaves the variables of the other parts unchanged.   *)
(***************************************************************************)
EXTENDS Integers, Sequences, FiniteSets, TLC

(***************************************************************************)
(* Bounds of the model (not program constants)                             *)
(***************************************************************************)
\* datagrams the network may lose in one behaviour
MaxDrops == 1
\* calls invoked on the replicated functions of the local replicable
MaxRpc == 2
\* the environment acts (hand-off, loss, silence) only while the sender's
\* sequence is within EventSpan of the start of one of the two windows
EventSpan == 2
\* start of the second event window (the sequences around the wrap at 256)
LateWindowStart == 254
\* datagrams one connection sends in one behaviour
MaxSends == 515

\* fields in a declared field list
MaxFields == 3
\* the values an int field takes besides None
IntValues == {0, 7}
\* attributes declared on the replicable class of the channel
MaxAttributes == 2
\* attribute writes on the server replicable
MaxWrites == 2
\* attribute_update payloads the network delivers a second time
MaxDuplicates == 1

\* inputs the player makes (client ticks with an input)
MaxMoves == 3
\* the input states a player can produce
Inputs == {1, 2}
\* pawn positions are counted modulo PositionModulus
PositionModulus == 5
\* JitterBuffer(length=round(0.1 * tick_rate)) for the tick rate modelled
BufferLength == 2
\* times the server-side physics moves the pawn on its own
MaxPerturb == 1
\* move messages the network loses
MaxLostMoves == 1
\* corrections the transport delivers a second time
MaxRedeliveries == 1

\* a lossy stretch: datagrams may be lost at the sequences 1..LossSpan and
\* LossWindowStart..LossWindowStart+LossSpan, LossDrops of them at most
LossSpan == 1
LossWindowStart == 34
LossDrops == 3
\* datagrams a connection sends in the lossy stretch
LossSends == 72

\* the sequence of the reliable datagram lost before the wrap, and the
\* datagrams a connection sends up to the wrap
ThrottleLossAt == 221
ThrottleSends == 262

\* datagrams a connection sends to a peer that does not answer
SilentSends == 34

\* datagrams a connection sends while the network holds one datagram back
LateSends == 262

\* calls in one inbound rpc payload
MaxCalls == 2
\* seconds the scene channel's clock runs
MaxAge == 4

\* ticks of a server game loop
MaxTicks == 3
\* the pawn states the rewind buffer keeps (_rewind_length)
RewindLength == 2
\* a pawn's position, rotation and animation frame are each in 0..MaxCoordinate
MaxCoordinate == 1

\* datagrams that wait in the socket of a game loop
MaxWaiting == 2

\* inputs of the client in a long session
MaxInputs == 1001

\* handshake packets that reach the client interface
MaxHandshakePackets == 2

\* request_auth packets that reach the server interface
MaxRequests == 2

\* replicables that may possess one another
MaxOwned == 4

\* Replicable instances created in one behaviour
MaxInstances == 3

\* ids in the scene's pool, standing for UniqueIDPool(255)
PoolSize == 3
\* replicables a scene creates in one behaviour
MaxReplicables == 4

\* seconds that pass between two looks at the clock
ClockStep == 5
\* the last second of a handshake behaviour
MaxClock == 15

(***************************************************************************)
(* Program constants                                                       *)
(***************************************************************************)
sequence_max_size == 255
ack_window == 32
timeout_duration == 3
\* HandshakeManagerBase.timeout_duration
handshake_timeout_duration == 10
\* ShadowReplicableChannelBase.lifetime
shadow_lifetime == 3
initial_bandwidth == 1000
packet_growth == 500

\* Python's None where a sequence number is expected
None == -1

Peers == {"local", "remote"}
Other(c) == IF c = "local" THEN "remote" ELSE "local"

(***************************************************************************)
(* Generic helpers                                                         *)
(***************************************************************************)

\* dict.pop(key) / dict[key] = value on a function with a finite domain
DictPop(f, k) == [x \in (DOMAIN f) \ {k} |-> f[x]]
DictPut(f, k, v) == [x \in (DOMAIN f) \cup {k} |-> IF x = k THEN v ELSE f[x]]

\* the elements of a finite set of integers in ascending order
RECURSIVE SortedSeq(_)
SortedSeq(S) ==
    IF S = {} THEN <<>>
    ELSE LET m == CHOOSE x \in S : \A y \in S : x <= y
         IN <<m>> \o SortedSeq(S \ {m})

(***************************************************************************)
(* Packets                                                                 *)
(***************************************************************************)
\* Packet(protocol, reliable): the payload of a datagram is a sequence of
\* packets (a PacketCollection)
\* id names a reliable packet in the order of its hand-off (0: unreliable)
HeartbeatPacket == [protocol |-> "heartbeat", id |-> 0, reliable |-> FALSE, payload |-> << >>]
RpcPacket(n, data, reliable) ==
    [protocol |-> "rpc_invocation", id |-> n, reliable |-> reliable, payload |-> data]

\* PacketCollection.to_reliable(): the reliable members; the empty
\* sequence stands for the None returned when there are none
to_reliable(payload) == SelectSeq(payload, LAMBDA p : p.reliable)

ReliableIds(payload) == {payload[i].id : i \in {j \in DOMAIN payload : payload[j].reliable}}

(***************************************************************************)
(* Connection                                                              *)
(***************************************************************************)
\* bandwidth is kept exactly as num / 2^exp
NormBandwidth(b) ==
    IF b.exp > 0 /\ b.num % 2 = 0 THEN [num |-> b.num \div 2, exp |-> b.exp - 1] ELSE b

RECURSIVE Pow2(_)
Pow2(n) == IF n = 0 THEN 1 ELSE 2 * Pow2(n - 1)

\* Connection.__init__
NewConnection ==
    [ local_sequence |-> 0,
      remote_sequence |-> 0,
      requested_ack |-> << >>,
      received_window |-> << >>,
      outgoing_ack_bitfield |-> [i \in 1..ack_window |-> FALSE],
      bandwidth |-> [num |-> initial_bandwidth, exp |-> 0],
      tagged_throttle_sequence |-> None,
      throttle_pending |-> FALSE,
      received_any |-> FALSE,
      silence |-> 0,
      queue |-> << >>,
      sent |-> 0,
      acked |-> {},
      not_acked |-> {},
      executed |-> << >> ]

\* Connection.timed_out: silence is clock() - last_received_time in seconds
timed_out(c) == c.received_any /\ c.silence > timeout_duration

\* Connection._is_more_recent: half_seq is 255 / 2 = 127.5, compared doubled
_is_more_recent(base, sequence) ==
    \/ (base > sequence /\ 2 * (base - sequence) <= sequence_max_size)
    \/ (sequence > base /\ 2 * (sequence - base) > sequence_max_size)

InWindow(window, sqn) == \E i \in DOMAIN window : window[i] = sqn

\* Connection._get_reliable_information: bits whose sequence would be
\* negative are skipped and keep their previous value
_get_reliable_information(c, remote_sequence) ==
    [index \in 1..ack_window |->
        IF remote_sequence - index < 0
        THEN c.outgoing_ack_bitfield[index]
        ELSE InWindow(c.received_window, remote_sequence - index)]

\* Connection.start_throttling / stop_throttling
start_throttling(c) ==
    [c EXCEPT !.bandwidth = NormBandwidth([num |-> c.bandwidth.num, exp |-> c.bandwidth.exp + 1]),
              !.throttle_pending = TRUE]

stop_throttling(c) ==
    [c EXCEPT !.tagged_throttle_sequence = None, !.throttle_pending = FALSE]

\* Connection.queue_packet
queue_packet(c, packet) ==
    LET sequence == (c.local_sequence + 1) % (sequence_max_size + 1)
        ack_bitfield == _get_reliable_information(c, c.remote_sequence)
        message == [sequence |-> sequence,
                    ack_base |-> c.remote_sequence,
                    ack_bitfield |-> ack_bitfield,
                    payload |-> packet]
    IN [c EXCEPT
          !.local_sequence = sequence,
          !.tagged_throttle_sequence =
              IF c.throttle_pending /\ c.tagged_throttle_sequence = None
              THEN sequence ELSE c.tagged_throttle_sequence,
          !.outgoing_ack_bitfield = ack_bitfield,
          !.requested_ack = DictPut(c.requested_ack, sequence, packet),
          !.bandwidth = [num |-> c.bandwidth.num + packet_growth * Pow2(c.bandwidth.exp),
                         exp |-> c.bandwidth.exp],
          !.queue = Append(c.queue, message),
          !.sent = c.sent + 1]

\* sent_packet.on_ack() for the entry stored under sequence s
AckEntry(c, s) ==
    LET acknowledged == [c EXCEPT !.requested_ack = DictPop(c.requested_ack, s),
                                  !.acked = c.acked \cup ReliableIds(c.requested_ack[s])]
    IN IF s = c.tagged_throttle_sequence THEN stop_throttling(acknowledged) ELSE acknowledged

\* the loop over the ack bitfield (connection.py 130-140)
RECURSIVE AckBits(_, _, _, _)
AckBits(c, ack_base, ack_bitfield, relative) ==
    IF relative > ack_window THEN c
    ELSE LET absolute_sequence == ack_base - relative
             next == IF ack_bitfield[relative] /\ absolute_sequence \in DOMAIN c.requested_ack
                     THEN AckEntry(c, absolute_sequence)
                     ELSE c
         IN AckBits(next, ack_base, ack_bitfield, relative + 1)

\* the loop over considered_dropped (connection.py 159-167); the result is
\* the connection and whether a reliable entry was missed
RECURSIVE DropLoop(_, _, _)
DropLoop(c, considered_dropped, missed_ack) ==
    IF considered_dropped = <<>> THEN [conn |-> c, missed_ack |-> missed_ack]
    ELSE LET absolute_sequence == Head(considered_dropped)
             reliable_packet == to_reliable(c.requested_ack[absolute_sequence])
             popped == [c EXCEPT !.requested_ack = DictPop(c.requested_ack, absolute_sequence)]
         IN IF reliable_packet = << >>
            THEN DropLoop(popped, Tail(considered_dropped), missed_ack)
            ELSE DropLoop(
                   queue_packet([popped EXCEPT !.not_acked = popped.not_acked \cup ReliableIds(reliable_packet)],
                                reliable_packet),
                   Tail(considered_dropped), TRUE)

\* Connection._update_reliable_information
\* the connection after the bitfield and the ack base have been handled
\* (connection.py 129-149)
AfterAcks(c, ack_base, ack_bitfield) ==
    LET after_bits == AckBits(c, ack_base, ack_bitfield, 1)
    IN IF ack_base \in DOMAIN after_bits.requested_ack
       THEN AckEntry(after_bits, ack_base)
       ELSE after_bits

\* the sequences of the entries whose on_ack has run
Acknowledged(c, ack_base, ack_bitfield) ==
    DOMAIN c.requested_ack \ DOMAIN AfterAcks(c, ack_base, ack_bitfield).requested_ack

\* considered_dropped (connection.py 155)
considered_dropped(c, ack_base) ==
    {s \in DOMAIN c.requested_ack : (ack_base - s) >= ack_window}

_update_reliable_information(c, ack_base, ack_bitfield) ==
    LET after_base == AfterAcks(c, ack_base, ack_bitfield)
        dropped == DropLoop(after_base, SortedSeq(considered_dropped(after_base, ack_base)), FALSE)
    IN IF dropped.missed_ack /\ ~dropped.conn.throttle_pending
       THEN start_throttling(dropped.conn)
       ELSE dropped.conn

\* deque(maxlen=ack_window).append
WindowAppend(window, sequence) ==
    LET appended == Append(window, sequence)
    IN IF Len(appended) > ack_window THEN Tail(appended) ELSE appended

\* ReplicableChannelBase.dump_rpc_calls: a queued call is
\* <<index, is_reliable, data>>, a packed call is the index byte and the data
RECURSIVE JoinCalls(_, _)
JoinCalls(replicated_function_queue, is_reliable) ==
    IF replicated_function_queue = << >> THEN << >>
    ELSE LET call == Head(replicated_function_queue)
         IN (IF call[2] = is_reliable THEN <<call[1]>> \o call[3] ELSE << >>)
            \o JoinCalls(Tail(replicated_function_queue), is_reliable)

dump_rpc_calls(replicated_function_queue) ==
    [reliable_data |-> JoinCalls(replicated_function_queue, TRUE),
     unreliable_data |-> JoinCalls(replicated_function_queue, FALSE)]

\* the replicated functions of the replicable: each takes one byte
replicated_functions == {0}

\* ReplicableChannelBase.process_rpc_calls: the arguments of the calls
\* executed, in order; decoding stops at an unknown function index
RECURSIVE process_rpc_calls(_, _)
process_rpc_calls(data, permitted) ==
    IF Len(data) < 2 THEN << >>
    ELSE IF Head(data) \notin replicated_functions THEN << >>
    ELSE (IF permitted THEN <<data[2]>> ELSE << >>)
         \o process_rpc_calls(Tail(Tail(data)), permitted)

\* the rpc_invocation packets of a payload reach the channel in order
RECURSIVE DispatchPayload(_)
DispatchPayload(payload) ==
    IF payload = << >> THEN << >>
    ELSE (IF Head(payload).protocol = "rpc_invocation"
          THEN process_rpc_calls(Head(payload).payload, TRUE) ELSE << >>)
         \o DispatchPayload(Tail(payload))

\* the pre-send callback: the channel's calls become at most one reliable
\* and one unreliable rpc_invocation packet, queued as one collection
FlushRpc(c, replicated_function_queue, next_id) ==
    LET dumped == dump_rpc_calls(replicated_function_queue)
        packets ==
            (IF dumped.reliable_data # << >>
             THEN <<RpcPacket(next_id, dumped.reliable_data, TRUE)>> ELSE << >>)
            \o (IF dumped.unreliable_data # << >>
                THEN <<RpcPacket(0, dumped.unreliable_data, FALSE)>> ELSE << >>)
    IN IF packets = << >> THEN c ELSE queue_packet(c, packets)

\* Connection.receive_message
receive_message(c, message) ==
    LET updated == _update_reliable_information(c, message.ack_base, message.ack_bitfield)
    IN [updated EXCEPT
          !.remote_sequence =
              IF _is_more_recent(message.sequence, updated.remote_sequence)
              THEN message.sequence ELSE updated.remote_sequence,
          !.received_window = WindowAppend(updated.received_window, message.sequence),
          !.executed = updated.executed \o DispatchPayload(message.payload),
          !.received_any = TRUE,
          !.silence = 0]

\* Connection.request_messages(is_network_tick=True): the connection with
\* the heartbeat queued; the messages returned are its queue
request_messages(c) == queue_packet(c, <<HeartbeatPacket>>)

(***************************************************************************)
(* BitField and FlagSerialiser                                             *)
(***************************************************************************)
\* A field list is a sequence of types, "int" or "bool"; a field is named by
\* its position in the declaration.  A value map is a function from a subset
\* of the positions to values: an integer 0..255 for an int field, 0 or 1
\* for a bool field (False, True), NoneValue for None.  Packed data is a
\* sequence of bytes.
NoneValue == -1

\* the bits of a BitField as the integer the BitField stores
RECURSIVE BitsToInt(_)
BitsToInt(bits) ==
    IF bits = << >> THEN 0
    ELSE (IF Head(bits) THEN 1 ELSE 0) + 2 * BitsToInt(Tail(bits))

IntToBits(value, size) == [i \in 1..size |-> (value \div Pow2(i - 1)) % 2 = 1]

\* the BitField handler: a size byte, then the stored integer when the
\* field has any bits
BitFieldPack(bits) == IF Len(bits) = 0 THEN <<0>> ELSE <<Len(bits), BitsToInt(bits)>>
BitFieldSize(bytes) == IF bytes[1] = 0 THEN 1 ELSE 2
\* unpack_merge fills the bits of a field of the given size from the bytes
BitFieldUnpackMerge(size, bytes) == IF size = 0 THEN << >> ELSE IntToBits(bytes[2], size)

\* BitField.__bool__
BitFieldAny(bits) == \E i \in DOMAIN bits : bits[i]

Drop1(bytes, n) == SubSeq(bytes, n + 1, Len(bytes))

\* FlagSerialiser.__init__: the positions of the non-boolean and of the
\* boolean fields, each in declaration order
RECURSIVE PositionsOf(_, _, _)
PositionsOf(fields, want_bool, i) ==
    IF i > Len(fields) THEN << >>
    ELSE (IF (fields[i] = "bool") = want_bool THEN <<i>> ELSE << >>)
         \o PositionsOf(fields, want_bool, i + 1)

non_bool_args(fields) == PositionsOf(fields, FALSE, 1)
bool_args(fields) == PositionsOf(fields, TRUE, 1)

\* the int handler (UInt8): one byte
IntPack(value) == <<value % 256>>

\* FlagSerialiser.pack, the loop over the non-boolean handlers: the packed
\* values in order
RECURSIVE PackNonBools(_, _, _)
PackNonBools(non_bools, data, index) ==
    IF index > Len(non_bools) THEN << >>
    ELSE LET key == non_bools[index]
         IN (IF key \in DOMAIN data /\ data[key] # NoneValue THEN IntPack(data[key]) ELSE << >>)
            \o PackNonBools(non_bools, data, index + 1)

\* has_booleans = len(data) > total_none_booleans
PackHasBooleans(fields, data) == Cardinality(DOMAIN data) > Len(non_bool_args(fields))

\* FlagSerialiser.pack
pack(fields, data) ==
    LET non_bools == non_bool_args(fields)
        bools == bool_args(fields)
        total_none_booleans == Len(non_bools)
        total_contents == Len(fields)
        has_booleans == PackHasBooleans(fields, data)
        \* position in the contents mask of every field that gets marked
        ContentIndexIncluded(content_index) ==
            IF content_index <= total_none_booleans
            THEN non_bools[content_index] \in DOMAIN data
            ELSE has_booleans /\ bools[content_index - total_none_booleans] \in DOMAIN data
        KeyAt(content_index) ==
            IF content_index <= total_none_booleans
            THEN non_bools[content_index]
            ELSE bools[content_index - total_none_booleans]
        none_bits == [i \in 1..total_contents |->
                         ContentIndexIncluded(i) /\ data[KeyAt(i)] = NoneValue]
        bool_bits == [j \in 1..Len(bools) |->
                         bools[j] \in DOMAIN data /\ data[bools[j]] = 1]
        content_bits == [i \in 1..(total_contents + 2) |->
                            IF i <= total_contents THEN ContentIndexIncluded(i)
                            ELSE IF i = total_contents + 1 THEN has_booleans
                            ELSE BitFieldAny(none_bits)]
    IN BitFieldPack(content_bits)
       \o (IF BitFieldAny(none_bits) THEN BitFieldPack(none_bits) ELSE << >>)
       \o PackNonBools(non_bools, data, 1)
       \o (IF has_booleans THEN BitFieldPack(bool_bits) ELSE << >>)

\* FlagSerialiser.unpack, the loop over the non-boolean handlers: the pairs
\* yielded and the bytes left
RECURSIVE UnpackNonBools(_, _, _, _, _)
UnpackNonBools(non_bools, content_values, none_values, bytes, index) ==
    IF index > Len(non_bools) THEN [items |-> << >>, bytes |-> bytes]
    ELSE IF ~content_values[index]
         THEN UnpackNonBools(non_bools, content_values, none_values, bytes, index + 1)
         ELSE IF none_values[index]
              THEN LET rest == UnpackNonBools(non_bools, content_values, none_values, bytes, index + 1)
                   IN [items |-> <<(<<non_bools[index], NoneValue>>)>> \o rest.items, bytes |-> rest.bytes]
              ELSE LET rest == UnpackNonBools(non_bools, content_values, none_values,
                                              Drop1(bytes, 1), index + 1)
                   IN [items |-> <<(<<non_bools[index], bytes[1]>>)>> \o rest.items, bytes |-> rest.bytes]

\* the loop over boolean_info
RECURSIVE UnpackBools(_, _, _, _, _)
UnpackBools(bools, bool_bits, found_booleans, none_booleans, j) ==
    IF j > Len(bools) THEN << >>
    ELSE (IF found_booleans[j]
          THEN <<(<<bools[j], IF none_booleans[j] THEN NoneValue
                              ELSE IF bool_bits[j] THEN 1 ELSE 0>>)>>
          ELSE << >>)
         \o UnpackBools(bools, bool_bits, found_booleans, none_booleans, j + 1)

\* FlagSerialiser.unpack: the (key, value) pairs in the order they are yielded
unpack(fields, bytes_) ==
    LET non_bools == non_bool_args(fields)
        bools == bool_args(fields)
        total_none_booleans == Len(non_bools)
        total_contents == Len(fields)
        content_values == BitFieldUnpackMerge(total_contents + 2, bytes_)
        after_contents == Drop1(bytes_, BitFieldSize(bytes_))
        has_none_types == content_values[total_contents + 2]
        has_booleans == Len(bools) > 0 /\ content_values[total_contents + 1]
        none_values == IF has_none_types
                       THEN BitFieldUnpackMerge(total_contents, after_contents)
                       ELSE [i \in 1..total_contents |-> FALSE]
        after_nones == IF has_none_types
                       THEN Drop1(after_contents, BitFieldSize(after_contents))
                       ELSE after_contents
        values == UnpackNonBools(non_bools, content_values, none_values, after_nones, 1)
        bool_bits == BitFieldUnpackMerge(Len(bools), values.bytes)
    IN values.items
       \o (IF has_booleans
           THEN UnpackBools(bools, bool_bits,
                            [j \in 1..Len(bools) |-> content_values[total_none_booleans + j]],
                            [j \in 1..Len(bools) |-> none_values[total_none_booleans + j]], 1)
           ELSE << >>)

\* dict(items)
RECURSIVE ItemsToDict(_)
ItemsToDict(items) ==
    IF items = << >> THEN << >>
    ELSE LET last == items[Len(items)]
             before == ItemsToDict(SubSeq(items, 1, Len(items) - 1))
         IN DictPut(before, last[1], last[2])

(***************************************************************************)
(* Replicable channels                                                     *)
(***************************************************************************)
\* hash(None): some integer that is not the hash of a byte value
HashOfNone == 99991

\* static_description: hash(obj) for a value without __description__
static_description(value) == IF value = NoneValue THEN HashOfNone ELSE value

\* the declared initial value of an attribute
initial_value(type) == 0

\* can_replicate(is_owner, is_initial): the names the replicable yields,
\* here every declared attribute in declaration order
can_replicate(fields, is_initial) == [i \in 1..Len(fields) |-> i]

Restrict(f, keys) == [k \in keys |-> f[k]]

\* ServerReplicableChannel.get_attributes: the map to serialise, the
\* descriptions recorded and the packed data (NoData for None)
NoData == <<-1>>

\* get_attributes without the assignment last_replicated_descriptions[name]
\* = last_description
get_attributes_unrecorded(fields, serialisable_data, last_replicated_descriptions, is_initial) ==
    LET names == can_replicate(fields, is_initial)
        changed == {names[i] : i \in {j \in DOMAIN names :
                        last_replicated_descriptions[names[j]]
                            # static_description(serialisable_data[names[j]])}}
        to_serialise == Restrict(serialisable_data, changed)
    IN [to_serialise |-> to_serialise,
        last_replicated_descriptions |-> last_replicated_descriptions,
        data |-> IF changed # {} THEN pack(fields, to_serialise) ELSE NoData]

get_attributes(fields, serialisable_data, last_replicated_descriptions, is_initial) ==
    LET names == can_replicate(fields, is_initial)
        changed == {names[i] : i \in {j \in DOMAIN names :
                        last_replicated_descriptions[names[j]]
                            # static_description(serialisable_data[names[j]])}}
        to_serialise == Restrict(serialisable_data, changed)
    IN [to_serialise |-> to_serialise,
        last_replicated_descriptions |->
            [k \in DOMAIN last_replicated_descriptions |->
                IF k \in changed THEN static_description(serialisable_data[k])
                ELSE last_replicated_descriptions[k]],
        data |-> IF changed # {} THEN pack(fields, to_serialise) ELSE NoData]

\* ClientReplicableChannel.read_attributes, the loop over unpacked_items:
\* the values stored
RECURSIVE StoreItems(_, _)
StoreItems(serialisable_data, items) ==
    IF items = << >> THEN serialisable_data
    ELSE StoreItems([serialisable_data EXCEPT ![Head(items)[1]] = Head(items)[2]], Tail(items))

\* the names queued for notification, in the order they are queued
RECURSIVE QueuedNotifications(_, _)
QueuedNotifications(notify, items) ==
    IF items = << >> THEN << >>
    ELSE (IF Head(items)[1] \in notify THEN <<Head(items)[1]>> ELSE << >>)
         \o QueuedNotifications(notify, Tail(items))

\* read_attributes followed by the notifier callback it returns:
\* the client's values, the notifications issued and the order of the
\* stores and notifications
read_attributes(fields, notify, serialisable_data, bytes_string) ==
    LET unpacked_items == unpack(fields, bytes_string)
        notifications == QueuedNotifications(notify, unpacked_items)
    IN [serialisable_data |-> StoreItems(serialisable_data, unpacked_items),
        notifications |-> notifications,
        events |-> [i \in 1..Len(unpacked_items) |-> <<"store", unpacked_items[i][1]>>]
                   \o [i \in 1..Len(notifications) |-> <<"on_replicated", notifications[i]>>]]

(***************************************************************************)
(* Prediction and reconciliation (game_system/replicables.py)              *)
(***************************************************************************)
\* PlayerPawnController.process_inputs is the hook the game fills in; the
\* movement modelled depends on the order of the inputs.  A pawn is its
\* position.
process_inputs(position, input) == (2 * position + input) % PositionModulus

\* deque(maxlen=5).appendleft
recent_states_maxlen == 5

\* max_value of the move_id argument of server_receive_move and
\* client_correct_move
move_id_max_value == 1000

AppendLeft(recent_states, state) ==
    LET appended == <<state>> \o recent_states
    IN IF Len(appended) > recent_states_maxlen
       THEN SubSeq(appended, 1, recent_states_maxlen) ELSE appended

\* PlayerPawnController.initialise_client, with the pawn at the origin
initialise_client ==
    [move_id |-> 0, latest_correction_id |-> 0, sent_states |-> << >>,
     recent_states |-> << >>, pawn |-> 0]

\* PlayerPawnController.on_input
on_input(client, input) ==
    [client EXCEPT
        !.move_id = client.move_id + 1,
        !.sent_states = DictPut(client.sent_states, client.move_id + 1, input),
        !.recent_states = AppendLeft(client.recent_states, input),
        !.pawn = process_inputs(client.pawn, input)]

\* PlayerPawnController.client_send_move: the arguments of server_receive_move
client_send_move(client) ==
    [move_id |-> client.move_id,
     latest_correction_id |-> client.latest_correction_id,
     recent_states |-> client.recent_states,
     position |-> client.pawn]

\* the loop of client_correct_move: process_inputs for the ids first..last
RECURSIVE ReplayStates(_, _, _, _)
ReplayStates(position, sent_states, first, last) ==
    IF first > last THEN position
    ELSE ReplayStates(process_inputs(position, sent_states[first]), sent_states, first + 1, last)

\* PlayerPawnController.client_correct_move; the loop variable move_id
\* keeps the last id of the range (the argument when the range is empty)
client_correct_move(client, move_id, position) ==
    [client EXCEPT
        !.pawn = ReplayStates(position, client.sent_states, move_id, client.move_id),
        !.latest_correction_id = IF move_id <= client.move_id THEN client.move_id ELSE move_id]

\* JitterBuffer: states keyed by move id; it fills to its length, then
\* hands out the state with the lowest id and from then on the state with
\* the next id, or none when that state is not there
NewJitterBuffer(length) ==
    [items |-> << >>, length |-> length, filling |-> TRUE, last |-> None]

\* JitterBuffer.push: the value is the buffer and whether KeyError is raised
JitterPush(buffer, state, id) ==
    IF id \in DOMAIN buffer.items \/ (buffer.last # None /\ id <= buffer.last)
    THEN [buffer |-> buffer, key_error |-> TRUE]
    ELSE [buffer |-> [buffer EXCEPT !.items = DictPut(buffer.items, id, state)],
          key_error |-> FALSE]

\* the id JitterBuffer.__next__ is to hand out, None while it has none
JitterExpected(buffer) ==
    IF buffer.filling
    THEN IF Cardinality(DOMAIN buffer.items) < buffer.length THEN None
         ELSE CHOOSE id \in DOMAIN buffer.items : \A other \in DOMAIN buffer.items : id <= other
    ELSE buffer.last + 1

\* JitterBuffer.__next__: stop stands for StopIteration
JitterNext(buffer) ==
    LET id == JitterExpected(buffer)
    IN IF id = None \/ id \notin DOMAIN buffer.items
       THEN [stop |-> TRUE, buffer |-> buffer, state |-> None, move_id |-> None]
       ELSE [stop |-> FALSE,
             buffer |-> [buffer EXCEPT !.items = DictPop(buffer.items, id),
                                       !.filling = FALSE, !.last = id],
             state |-> buffer.items[id], move_id |-> id]

\* PlayerPawnController.initialise_server, with the pawn at the origin
initialise_server ==
    [buffer |-> NewJitterBuffer(BufferLength), client_moves_states |-> << >>,
     pending_validation_move_id |-> None, last_corrected_move_id |-> 0, pawn |-> 0]

\* the push loop with push(state, move_id + i)
RECURSIVE PushRecentForward(_, _, _, _)
PushRecentForward(buffer, recent_states, move_id, i) ==
    IF i >= Len(recent_states) THEN buffer
    ELSE LET pushed == JitterPush(buffer, recent_states[i + 1], move_id + i)
         IN IF pushed.key_error THEN buffer
            ELSE PushRecentForward(pushed.buffer, recent_states, move_id, i + 1)

\* the push loop of server_receive_move: the first KeyError ends it
RECURSIVE PushRecent(_, _, _, _)
PushRecent(buffer, recent_states, move_id, i) ==
    IF i >= Len(recent_states) THEN buffer
    ELSE LET pushed == JitterPush(buffer, recent_states[i + 1], move_id - i)
         IN IF pushed.key_error THEN buffer
            ELSE PushRecent(pushed.buffer, recent_states, move_id, i + 1)

\* PlayerPawnController.server_receive_move
server_receive_move(server, message) ==
    [server EXCEPT
        !.buffer = PushRecent(server.buffer, message.recent_states, message.move_id, 0),
        !.client_moves_states =
            DictPut(server.client_moves_states, message.move_id,
                    [position |-> message.position,
                     latest_correction_id |-> message.latest_correction_id])]

\* PlayerPawnController.on_tick
on_tick(server) ==
    LET popped == JitterNext(server.buffer)
    IN IF popped.stop THEN server
       ELSE [server EXCEPT
                !.buffer = popped.buffer,
                !.pawn = process_inputs(server.pawn, popped.state),
                !.pending_validation_move_id = popped.move_id]

\* no client_correct_move call
NoCorrection == [move_id |-> None, position |-> None]

\* PlayerPawnController.server_validate_last_move: the controller
\* afterwards, the client_correct_move call made and
\* whether the move was compared and found valid.  Positions are whole
\* numbers, so any difference exceeds MAX_POSITION_ERROR_SQUARED = 0.5.
server_validate_last_move(server) ==
    LET move_id == server.pending_validation_move_id
        moves_states == server.client_moves_states
        kept == [i \in {k \in DOMAIN moves_states : k > move_id} |-> moves_states[i]]
        handled == [server EXCEPT !.pending_validation_move_id = None]
        silent(controller) == [server |-> controller, correction |-> NoCorrection, valid |-> FALSE]
    IN IF move_id = None THEN silent(server)
       ELSE IF move_id \notin DOMAIN moves_states
       THEN \* moves_states.pop(move_id) raises KeyError after the old ids went
            silent([handled EXCEPT !.client_moves_states = kept])
       ELSE LET popped == [handled EXCEPT !.client_moves_states = kept]
                client == moves_states[move_id]
            IN IF client.latest_correction_id < server.last_corrected_move_id
               THEN silent(popped)
               ELSE IF client.position # server.pawn
               THEN [server |-> [popped EXCEPT !.last_corrected_move_id = move_id],
                     correction |-> [move_id |-> move_id, position |-> server.pawn],
                     valid |-> FALSE]
               ELSE [server |-> popped, correction |-> NoCorrection, valid |-> TRUE]

(***************************************************************************)
(* Scene (network_2/scene.py)                                              *)
(***************************************************************************)
\* UniqueIDPool(size): the ids not handed out
NewUniqueIDPool(size) == 0..(size - 1)

\* UniqueIDPool.take: the next free id of the pool
PoolTake(pool) == CHOOSE id \in pool : \A other \in pool : id <= other

\* UniqueIDPool.retire
PoolRetire(pool, unique_id) == pool \cup {unique_id}

\* Scene.__init__; objects holds every replicable created, by creation number
NewScene == [replicables |-> << >>, _unique_ids |-> NewUniqueIDPool(PoolSize), objects |-> << >>]

\* Replicable.change_unique_id
change_unique_id(objects, replicable, unique_id) ==
    [objects EXCEPT ![replicable].unique_id = unique_id]

\* Scene.contest_id
contest_id(scene, unique_id, contestant, existing) ==
    LET taken == PoolTake(scene._unique_ids)
    IN [scene EXCEPT
          !.replicables = DictPut(DictPut(scene.replicables, unique_id, contestant), taken, existing),
          !._unique_ids = scene._unique_ids \ {taken},
          !.objects = change_unique_id(scene.objects, existing, taken)]

\* Scene.add_replicable; requested is None for a dynamic replicable
add_replicable(scene, requested) ==
    LET is_static == requested # None
        unique_id == IF is_static THEN requested ELSE PoolTake(scene._unique_ids)
        replicable == Len(scene.objects) + 1
        created == [scene EXCEPT
                       !._unique_ids = IF is_static THEN scene._unique_ids
                                       ELSE scene._unique_ids \ {unique_id},
                       !.objects = Append(scene.objects,
                                          [unique_id |-> unique_id, is_static |-> is_static])]
    IN IF unique_id \in DOMAIN scene.replicables
       THEN contest_id(created, unique_id, replicable, scene.replicables[unique_id])
       ELSE [created EXCEPT !.replicables = DictPut(scene.replicables, unique_id, replicable)]

\* Scene.remove_replicable
remove_replicable(scene, replicable) ==
    LET unique_id == scene.objects[replicable].unique_id
    IN [scene EXCEPT !.replicables = DictPop(scene.replicables, unique_id),
                     !._unique_ids = PoolRetire(scene._unique_ids, unique_id)]

(***************************************************************************)
(* Handshake (network/streams/handshake.py)                                *)
(***************************************************************************)
Sides == {"server", "client"}
Opposite(side) == IF side = "server" THEN "client" ELSE "server"

\* Packet(protocol, reliable=False, on_success=None)
Packet(protocol, reliable, on_success) ==
    [protocol |-> protocol, reliable |-> reliable, on_success |-> on_success]

\* HandshakeManagerBase.__init__; trail holds the state before the last
\* handler and the states that handler assigned, teardown the causes of the
\* _cleanup calls made, queued the packets handed to connection.queue_packet
NewHandshakeManager ==
    [state |-> "init", replication_managers |-> 0, disconnected_managers |-> 0,
     handshake_error |-> FALSE, teardown |-> {}, trail |-> <<"init">>, queued |-> << >>]

\* an assignment to self.state
SetState(m, state) == [m EXCEPT !.state = state, !.trail = Append(m.trail, state)]

\* connection.queue_packet(packet), as a handshake manager calls it
QueuePacket(m, packet) == [m EXCEPT !.queued = Append(m.queued, packet)]

\* HandshakeManagerBase.timed_out; last_received_time is None until a
\* datagram arrives, and the subtraction then raises TypeError
ManagerTimedOut(now, last_received_time) ==
    IF last_received_time = None THEN "TypeError"
    ELSE IF (now - last_received_time) > handshake_timeout_duration THEN "yes" ELSE "no"

\* HandshakeManagerBase._cleanup
_cleanup(m, cause) ==
    [m EXCEPT !.teardown = m.teardown \cup {cause},
              !.disconnected_managers = IF m.replication_managers > 0
                                        THEN m.disconnected_managers + 1
                                        ELSE m.disconnected_managers]

\* HandshakeManagerBase.on_timeout
ManagerOnTimeout(m) == _cleanup(m, "timeout")

\* HandshakeManagerBase.pull_packets
pull_packets(m, now, last_received_time) ==
    IF ManagerTimedOut(now, last_received_time) = "yes" THEN ManagerOnTimeout(m) ELSE m

\* ServerHandshakeManager.on_ack_handshake_failed
on_ack_handshake_failed(m) == _cleanup(m, "ack")

\* ServerHandshakeManager.receive_disconnect_request
receive_disconnect_request(m) == SetState(_cleanup(m, "disconnect"), "disconnected")

\* ServerHandshakeManager.send_handshake_result
send_handshake_result(m) ==
    IF m.handshake_error
    THEN QueuePacket(SetState(m, "failed"),
                     Packet("handshake_failed", FALSE, "on_ack_handshake_failed"))
    ELSE QueuePacket([SetState(m, "connected") EXCEPT
                         !.replication_managers = m.replication_managers + 1],
                     Packet("handshake_success", TRUE, "none"))

\* a server that answers every request_handshake, whatever its state
receive_handshake_request_unguarded(m, refused) ==
    send_handshake_result(
        SetState([m EXCEPT !.handshake_error = (m.handshake_error \/ refused)],
                 "received_handshake"))

\* ServerHandshakeManager.receive_handshake_request; refused tells whether
\* rules.pre_initialise raises NetworkError
receive_handshake_request(m, refused) ==
    IF m.state # "awaiting_handshake" THEN m
    ELSE send_handshake_result(
            SetState([m EXCEPT !.handshake_error = (m.handshake_error \/ refused)],
                     "received_handshake"))

\* ServerHandshakeManager.invoke_handshake
server_invoke_handshake(m) ==
    QueuePacket(SetState(m, "awaiting_handshake"), Packet("invoke_handshake", TRUE, "none"))

\* ClientHandshakeManager.invoke_handshake
client_invoke_handshake(m) ==
    QueuePacket(SetState(m, "received_handshake"), Packet("request_handshake", TRUE, "none"))

\* ClientHandshakeManager.receive_handshake_success
receive_handshake_success(m) ==
    IF m.state # "received_handshake" THEN m
    ELSE [SetState(m, "connected") EXCEPT !.replication_managers = m.replication_managers + 1]

\* ClientHandshakeManager.receive_multicast_ping
receive_multicast_ping(m) == client_invoke_handshake(m)

\* ClientHandshakeManager.receive_handshake_failed
receive_handshake_failed(m) == SetState(m, "failed")

\* create_handshake_manager: the manager of each side after __init__
create_handshake_manager(side) ==
    IF side = "server" THEN server_invoke_handshake(NewHandshakeManager)
    ELSE client_invoke_handshake(NewHandshakeManager)

\* the listener that register_protocol_listeners binds to a protocol
Dispatch(side, m, packet, refused) ==
    IF side = "server"
    THEN (CASE packet.protocol = "request_disconnect" -> receive_disconnect_request(m)
            [] packet.protocol = "request_handshake" -> receive_handshake_request(m, refused)
            [] OTHER -> m)
    ELSE (CASE packet.protocol = "handshake_success" -> receive_handshake_success(m)
            [] packet.protocol = "invoke_handshake" -> receive_multicast_ping(m)
            [] packet.protocol = "handshake_failed" -> receive_handshake_failed(m)
            [] OTHER -> m)

(***************************************************************************)
(* State                                                                   *)
(***************************************************************************)
VARIABLES
    conn,       \* the two Connection objects
    net,        \* net[c]: datagrams on their way to connection c, in order
    turn,       \* whose SimpleNetwork.step runs
    drops,      \* datagrams lost so far
    handed,     \* reliable packets handed to the local connection so far
    rpc_queue,  \* replicated_function_queue of the local replicable
    invoked,    \* invoked[n]: whether the n-th call invoked was reliable
    fs,         \* a FlagSerialiser, the value map given to it and its results
    ch,         \* a server channel, its replicable, the client channel and the wire between
    mv,         \* a player's controller on client and server and the calls between
    sc,         \* a Scene, its id pool and its replicables; or the instance
                \* graph of the Replicable class with its instances
    hs,         \* the handshake managers of a connection's two ends
    rc,         \* a server scene channel, its replicable channels and shadows
    gl          \* a game loop: its pawns and rewind buffer, or the phases of its tick

connVars == <<conn, net, turn, drops, handed, rpc_queue, invoked>>

vars == <<conn, net, turn, drops, handed, rpc_queue, invoked, fs, ch, mv, sc, hs, rc, gl>>

\* what the actions of one part leave alone
nonConnVars == <<fs, ch, mv, sc, hs, rc, gl>>
nonFsVars == <<conn, net, turn, drops, handed, rpc_queue, invoked, ch, mv, sc, hs, rc, gl>>
nonChVars == <<conn, net, turn, drops, handed, rpc_queue, invoked, fs, mv, sc, hs, rc, gl>>
nonMvVars == <<conn, net, turn, drops, handed, rpc_queue, invoked, fs, ch, sc, hs, rc, gl>>
nonScVars == <<conn, net, turn, drops, handed, rpc_queue, invoked, fs, ch, mv, hs, rc, gl>>
nonHsVars == <<conn, net, turn, drops, handed, rpc_queue, invoked, fs, ch, mv, sc, rc, gl>>
nonRcVars == <<conn, net, turn, drops, handed, rpc_queue, invoked, fs, ch, mv, sc, hs, gl>>
nonGlVars == <<conn, net, turn, drops, handed, rpc_queue, invoked, fs, ch, mv, sc, hs, rc>>

ConnInit ==
    /\ conn = [c \in Peers |-> NewConnection]
    \* the datagrams on the way to each peer, and the copy the network holds back
    /\ net = [c \in Peers \cup {"held"} |-> << >>]
    /\ turn = "local"
    /\ drops = 0
    /\ handed = 0
    /\ rpc_queue = << >>
    /\ invoked = << >>

\* the sequences at which the environment may act
EventWindows ==
    (1..(1 + EventSpan))
    \cup {(LateWindowStart + k) % (sequence_max_size + 1) : k \in 0..EventSpan}

NextSequence(c) == (conn[c].local_sequence + 1) % (sequence_max_size + 1)

\* Network.receive: the connection handles the next datagram addressed to it
Receive(c) ==
    /\ turn = c
    /\ net[c] # << >>
    /\ ~timed_out(conn[c])
    /\ conn' = [conn EXCEPT ![c] = receive_message(conn[c], Head(net[c]))]
    /\ net' = [net EXCEPT ![c] = Tail(net[c])]
    /\ UNCHANGED <<turn, drops, handed, rpc_queue, invoked>>
    /\ UNCHANGED nonConnVars

\* the network loses the next datagram addressed to c
DropWithin(c, windows, max_drops) ==
    /\ turn = c
    /\ net[c] # << >>
    /\ drops < max_drops
    /\ Head(net[c]).sequence \in windows
    /\ net' = [net EXCEPT ![c] = Tail(net[c])]
    /\ drops' = drops + 1
    /\ UNCHANGED <<conn, turn, handed, rpc_queue, invoked>>
    /\ UNCHANGED nonConnVars

Drop(c) == DropWithin(c, EventWindows, MaxDrops)

\* a replicated function of the local replicable is invoked with the
\* number of the invocation as its argument
InvokeWithin(is_reliable, windows) ==
    /\ turn = "local"
    /\ net["local"] = << >>
    /\ ~timed_out(conn["local"])
    /\ Len(invoked) < MaxRpc
    /\ NextSequence("local") \in windows
    /\ rpc_queue' = Append(rpc_queue, <<0, is_reliable, <<Len(invoked) + 1>>>>)
    /\ invoked' = Append(invoked, is_reliable)
    /\ UNCHANGED <<conn, net, turn, drops, handed>>
    /\ UNCHANGED nonConnVars

Invoke(is_reliable) == InvokeWithin(is_reliable, EventWindows)

\* a second passes on c's clock without a datagram from the peer
Elapse(c) ==
    /\ turn = c
    /\ net[c] = << >>
    /\ conn[c].received_any
    /\ conn[c].silence <= timeout_duration
    /\ NextSequence(c) \in EventWindows
    /\ conn' = [conn EXCEPT ![c].silence = conn[c].silence + 1]
    /\ UNCHANGED <<net, turn, drops, handed, rpc_queue, invoked>>
    /\ UNCHANGED nonConnVars

\* Network.send: the pre-send callback flushes the channel, then
\* request_messages on a network tick; the messages go out
SendUpTo(c, max_sends) ==
    /\ turn = c
    /\ net[c] = << >>
    /\ ~timed_out(conn[c])
    /\ conn[c].sent < max_sends
    /\ LET pending == IF c = "local" THEN rpc_queue ELSE << >>
           flushed == FlushRpc(conn[c], pending, handed + 1)
           requested == request_messages(flushed)
       IN /\ conn' = [conn EXCEPT ![c] = [requested EXCEPT !.queue = << >>]]
          /\ net' = [net EXCEPT ![Other(c)] = net[Other(c)] \o requested.queue]
          /\ handed' = IF dump_rpc_calls(pending).reliable_data # << >>
                       THEN handed + 1 ELSE handed
          /\ rpc_queue' = IF c = "local" THEN << >> ELSE rpc_queue
    /\ turn' = Other(c)
    /\ UNCHANGED <<drops, invoked>>
    /\ UNCHANGED nonConnVars

Send(c) == SendUpTo(c, MaxSends)

ConnNext ==
    \/ \E c \in Peers : Receive(c)
    \/ \E c \in Peers : Drop(c)
    \/ \E is_reliable \in BOOLEAN : Invoke(is_reliable)
    \/ \E c \in Peers : Elapse(c)
    \/ \E c \in Peers : Send(c)

(***************************************************************************)
(* A connection pair that loses datagrams again while a loss is handled    *)
(***************************************************************************)
\* the sequences at which datagrams may be lost and calls invoked
LossWindows == (1..LossSpan) \cup (LossWindowStart..(LossWindowStart + LossSpan))

LossDrop(c) == DropWithin(c, LossWindows, LossDrops)

LossInvoke == InvokeWithin(TRUE, 1..LossSpan)

LossSend(c) == SendUpTo(c, LossSends)

LossNext ==
    \/ \E c \in Peers : Receive(c)
    \/ LossDrop("remote")
    \/ LossInvoke
    \/ \E c \in Peers : LossSend(c)

(***************************************************************************)
(* A connection pair that throttles just before the sequence wrap          *)
(***************************************************************************)
\* the loss is judged ack_window sequences later; the packet is queued
\* again and the next datagram is the tagged one
ThrottleWindows == {ThrottleLossAt, (ThrottleLossAt + ack_window + 2) % (sequence_max_size + 1)}

ThrottleDrop == DropWithin("remote", {ThrottleLossAt}, MaxDrops)

ThrottleInvoke == InvokeWithin(TRUE, ThrottleWindows)

ThrottleSend(c) == SendUpTo(c, ThrottleSends)

ThrottleNext ==
    \/ \E c \in Peers : Receive(c)
    \/ ThrottleDrop
    \/ ThrottleInvoke
    \/ \E c \in Peers : ThrottleSend(c)

(***************************************************************************)
(* A connection whose peer does not answer                                 *)
(***************************************************************************)
\* every datagram on the way to the remote peer is lost, and the peer
\* sends nothing
Blackout ==
    /\ turn = "remote"
    /\ net' = [net EXCEPT !["remote"] = << >>]
    /\ turn' = "local"
    /\ UNCHANGED <<conn, drops, handed, rpc_queue, invoked>>
    /\ UNCHANGED nonConnVars

SilentInvoke(is_reliable) == InvokeWithin(is_reliable, 0..sequence_max_size)

SilentSend == SendUpTo("local", SilentSends)

SilentNext ==
    \/ Blackout
    \/ \E is_reliable \in BOOLEAN : SilentInvoke(is_reliable)
    \/ SilentSend

(***************************************************************************)
(* A connection pair over a network that delivers one datagram twice       *)
(***************************************************************************)
\* the sequences of the datagrams the network may hold back: one early, one
\* just before the wrap
LateWindows == {EventSpan, LateWindowStart}

\* the network keeps a copy of the next datagram addressed to local
Hold ==
    /\ turn = "local"
    /\ net["local"] # << >>
    /\ net["held"] = << >>
    /\ drops < MaxDrops
    /\ Head(net["local"]).sequence \in LateWindows
    /\ net' = [net EXCEPT !["held"] = <<Head(net["local"])>>]
    /\ drops' = drops + 1
    /\ UNCHANGED <<conn, turn, handed, rpc_queue, invoked>>
    /\ UNCHANGED nonConnVars

\* the copy arrives after the datagrams sent later: receive_message
LateArrival ==
    /\ turn = "local"
    /\ net["local"] = << >>
    /\ net["held"] # << >>
    /\ conn' = [conn EXCEPT !["local"] = receive_message(conn["local"], Head(net["held"]))]
    /\ net' = [net EXCEPT !["held"] = << >>]
    /\ UNCHANGED <<turn, drops, handed, rpc_queue, invoked>>
    /\ UNCHANGED nonConnVars

LateSend(c) == SendUpTo(c, LateSends)

LateNext ==
    \/ \E c \in Peers : Receive(c)
    \/ Hold
    \/ LateArrival
    \/ \E c \in Peers : LateSend(c)

(***************************************************************************)
(* FlagSerialiser: pack a value map, unpack the bytes                      *)
(***************************************************************************)
FieldTypes == {"int", "bool"}
FieldLists == UNION {[1..n -> FieldTypes] : n \in 1..MaxFields}

ValuesOf(type) == IF type = "bool" THEN {0, 1, NoneValue} ELSE IntValues \cup {NoneValue}

\* the value maps whose keys are a subset of the fields
ValueMaps(fields) ==
    UNION {{data \in [keys -> IntValues \cup {0, 1, NoneValue}] :
               \A k \in keys : data[k] \in ValuesOf(fields[k])} : keys \in SUBSET (1..Len(fields))}

FsInit ==
    \E fields \in FieldLists : \E data \in ValueMaps(fields) :
        fs = [fields |-> fields, data |-> data, bytes |-> << >>, items |-> << >>, pc |-> "pack"]

FsPack ==
    /\ fs.pc = "pack"
    /\ fs' = [fs EXCEPT !.bytes = pack(fs.fields, fs.data), !.pc = "unpack"]
    /\ UNCHANGED nonFsVars

FsUnpack ==
    /\ fs.pc = "unpack"
    /\ fs' = [fs EXCEPT !.items = unpack(fs.fields, fs.bytes), !.pc = "done"]
    /\ UNCHANGED nonFsVars

FsNext == FsPack \/ FsUnpack

(***************************************************************************)
(* Attribute replication over one channel                                  *)
(***************************************************************************)
AttributeLists == UNION {[1..n -> FieldTypes] : n \in 1..MaxAttributes}

NoApplication == [bytes |-> << >>, before |-> << >>, after |-> << >>,
                  notifications |-> << >>, events |-> << >>, duplicate |-> FALSE]

NoCall == [before |-> << >>, values |-> << >>, to_serialise |-> << >>, packet |-> FALSE]

\* both replicables are constructed with the declared initial values; the
\* server channel records their descriptions (channels.py 260)
ChInit ==
    \E fields \in AttributeLists : \E notify \in SUBSET (1..Len(fields)) :
        ch = [fields |-> fields,
              notify |-> notify,
              serialisable_data |-> [k \in 1..Len(fields) |-> initial_value(fields[k])],
              last_replicated_descriptions |->
                  [k \in 1..Len(fields) |-> static_description(initial_value(fields[k]))],
              is_initial |-> TRUE,
              wire |-> << >>,
              client_data |-> [k \in 1..Len(fields) |-> initial_value(fields[k])],
              last_delivered |-> << >>,
              application |-> NoApplication,
              call |-> NoCall,
              dirty |-> FALSE,
              writes |-> 0,
              duplicates |-> 0,
              wire_updates |-> 0,
              description_changes |-> 0]

\* the number of attributes an attribute_update payload carries: the field
\* bits set in its contents mask
WireAttributeCount(fields, bytes) ==
    Cardinality({i \in 1..Len(fields) : IntToBits(bytes[2], Len(fields) + 2)[i]})

\* an attribute of the server replicable is assigned
ChWrite(k, value) ==
    /\ ch.writes < MaxWrites
    /\ ch' = [ch EXCEPT !.serialisable_data[k] = value,
                        !.dirty = TRUE,
                        !.writes = ch.writes + 1]
    /\ UNCHANGED nonChVars

\* the channel replicates: get_attributes, and the manager enqueues an
\* attribute_update when it returns data
ChReplicate ==
    LET result == get_attributes(ch.fields, ch.serialisable_data,
                                 ch.last_replicated_descriptions, ch.is_initial)
        changes == {k \in DOMAIN ch.fields :
                       ch.last_replicated_descriptions[k] # static_description(ch.serialisable_data[k])}
    IN /\ ch' = [ch EXCEPT
                    !.last_replicated_descriptions = result.last_replicated_descriptions,
                    !.is_initial = FALSE,
                    !.wire = IF result.data # NoData THEN Append(ch.wire, result.data) ELSE ch.wire,
                    !.call = [before |-> ch.last_replicated_descriptions,
                              values |-> ch.serialisable_data,
                              to_serialise |-> result.to_serialise,
                              packet |-> result.data # NoData],
                    !.dirty = FALSE,
                    !.wire_updates = ch.wire_updates +
                        (IF result.data # NoData THEN WireAttributeCount(ch.fields, result.data) ELSE 0),
                    !.description_changes = ch.description_changes + Cardinality(changes)]
       /\ UNCHANGED nonChVars

\* the client channel applies a payload and the notifier callback runs
Apply(bytes, duplicate) ==
    LET result == read_attributes(ch.fields, ch.notify, ch.client_data, bytes)
    IN [ch EXCEPT !.client_data = result.serialisable_data,
                  !.last_delivered = bytes,
                  !.application = [bytes |-> bytes,
                                   before |-> ch.client_data,
                                   after |-> result.serialisable_data,
                                   notifications |-> result.notifications,
                                   events |-> result.events,
                                   duplicate |-> duplicate]]

\* the next attribute_update arrives at the client
ChDeliver ==
    /\ ch.wire # << >>
    /\ ch' = [Apply(Head(ch.wire), FALSE) EXCEPT !.wire = Tail(ch.wire)]
    /\ UNCHANGED nonChVars

\* the network delivers the attribute_update just applied a second time
ChRedeliver ==
    /\ ch.last_delivered # << >>
    /\ ~ch.application.duplicate
    /\ ch.duplicates < MaxDuplicates
    /\ ch' = [Apply(ch.last_delivered, TRUE) EXCEPT !.duplicates = ch.duplicates + 1]
    /\ UNCHANGED nonChVars

ChNext ==
    \/ \E k \in DOMAIN ch.fields : \E value \in ValuesOf(ch.fields[k]) : ChWrite(k, value)
    \/ ChReplicate
    \/ ChDeliver
    \/ ChRedeliver

(***************************************************************************)
(* The player controller on the client and on the server                   *)
(***************************************************************************)
NoReconciliation ==
    [move_id |-> None, position |-> None, client_move_id |-> None, sent_states |-> << >>,
     replayed |-> {}, result |-> None, validated |-> 0, duplicate |-> FALSE]

NoTick == [expected |-> None, present |-> FALSE, applied |-> None]

MvInit ==
    mv = [client |-> initialise_client,
          server |-> initialise_server,
          moves |-> {},              \* server_receive_move calls on their way
          corrections |-> << >>,     \* client_correct_move calls on their way
          last_correction |-> NoCorrection,
          lost |-> 0, perturbs |-> 0, redelivered |-> 0,
          arrivals |-> << >>,        \* move ids of the calls in arrival order
          applied |-> << >>,         \* <<move id, input>> the server applied
          tick |-> NoTick,           \* what the last server tick found and did
          validated |-> 0,           \* the last move the server found valid
          reconciled |-> NoReconciliation]

\* the ids the loop of client_correct_move runs over
ReplayedIds(client, move_id) == move_id..client.move_id

\* a client tick: on_input, then post_physics sends the move
ClientTick(input) ==
    /\ mv.client.move_id < MaxMoves
    /\ LET client == on_input(mv.client, input)
       IN mv' = [mv EXCEPT !.client = client,
                           !.moves = mv.moves \cup {client_send_move(client)}]
    /\ UNCHANGED nonMvVars

\* a server_receive_move call arrives (unreliable: in any order)
DeliverMove(message) ==
    /\ message \in mv.moves
    /\ mv' = [mv EXCEPT !.server = server_receive_move(mv.server, message),
                        !.moves = mv.moves \ {message},
                        !.arrivals = Append(mv.arrivals, message.move_id)]
    /\ UNCHANGED nonMvVars

\* a server_receive_move call is lost
LoseMove(message) ==
    /\ message \in mv.moves
    /\ mv.lost < MaxLostMoves
    /\ mv' = [mv EXCEPT !.moves = mv.moves \ {message}, !.lost = mv.lost + 1]
    /\ UNCHANGED nonMvVars

\* a server tick: on_tick, then post_physics validates the move applied
ServerTick ==
    LET expected == JitterExpected(mv.server.buffer)
        popped == JitterNext(mv.server.buffer)
        ticked == on_tick(mv.server)
        checked == server_validate_last_move(ticked)
    IN /\ mv' = [mv EXCEPT
                    !.server = checked.server,
                    !.applied = IF popped.stop THEN mv.applied
                                ELSE Append(mv.applied, <<popped.move_id, popped.state>>),
                    !.tick = [expected |-> expected,
                              present |-> expected \in DOMAIN mv.server.buffer.items,
                              applied |-> popped.move_id],
                    !.corrections = IF checked.correction = NoCorrection THEN mv.corrections
                                    ELSE Append(mv.corrections, checked.correction),
                    !.validated = IF checked.valid THEN ticked.pending_validation_move_id
                                  ELSE mv.validated]
       /\ UNCHANGED nonMvVars

\* the server's physics moves the pawn on its own (a collision)
Perturb ==
    /\ mv.perturbs < MaxPerturb
    /\ mv' = [mv EXCEPT !.server.pawn = (mv.server.pawn + 1) % PositionModulus,
                        !.perturbs = mv.perturbs + 1]
    /\ UNCHANGED nonMvVars

\* the client handles the client_correct_move call `correction`
Reconcile(correction, duplicate) ==
    LET client == client_correct_move(mv.client, correction.move_id, correction.position)
    IN [mv EXCEPT
          !.client = client,
          !.last_correction = correction,
          !.reconciled = [move_id |-> correction.move_id,
                          position |-> correction.position,
                          client_move_id |-> mv.client.move_id,
                          sent_states |-> mv.client.sent_states,
                          replayed |-> ReplayedIds(mv.client, correction.move_id),
                          result |-> client.pawn,
                          validated |-> mv.validated,
                          duplicate |-> duplicate]]

\* a client_correct_move call arrives (reliable: in the order sent)
DeliverCorrection ==
    /\ mv.corrections # << >>
    /\ mv' = [Reconcile(Head(mv.corrections), FALSE) EXCEPT !.corrections = Tail(mv.corrections)]
    /\ UNCHANGED nonMvVars

\* the transport requeued a correction whose acknowledgement was lost:
\* the call arrives a second time
RedeliverCorrection ==
    /\ mv.corrections = << >>
    /\ mv.last_correction # NoCorrection
    /\ mv.redelivered < MaxRedeliveries
    /\ mv' = [Reconcile(mv.last_correction, TRUE) EXCEPT !.redelivered = mv.redelivered + 1]
    /\ UNCHANGED nonMvVars

\* a client tick of a long session: on_input, then post_physics sends the
\* move, which replaces the call sent by the tick before
InputTick(input) ==
    /\ mv.client.move_id < MaxInputs
    /\ LET client == on_input(mv.client, input)
       IN mv' = [mv EXCEPT !.client = client,
                           !.moves = {client_send_move(client)}]
    /\ UNCHANGED nonMvVars

\* the player holds one key down
InputsNext == InputTick(CHOOSE input \in Inputs : TRUE)

MvNext ==
    \/ \E input \in Inputs : ClientTick(input)
    \/ \E message \in mv.moves : DeliverMove(message)
    \/ \E message \in mv.moves : LoseMove(message)
    \/ ServerTick
    \/ Perturb
    \/ DeliverCorrection
    \/ RedeliverCorrection

(***************************************************************************)
(* The scene                                                               *)
(***************************************************************************)
NoAddition == [requested |-> None, replicable |-> None, existing |-> None, before |-> << >>]

ScInit ==
    sc = [scene |-> NewScene,
          original |-> << >>,      \* the id each replicable was created with
          removed |-> {},          \* the replicables removed from the scene
          added |-> NoAddition]    \* the last add_replicable call

\* the replicables in the scene
InScene == {sc.scene.replicables[id] : id \in DOMAIN sc.scene.replicables}

\* the calls of take() that add_replicable makes: one for a dynamic
\* replicable, one for the holder of a contested id
TakesOf(scene, requested) ==
    IF requested # None
    THEN (IF requested \in DOMAIN scene.replicables THEN 1 ELSE 0)
    ELSE IF scene._unique_ids = {} THEN 1
         ELSE IF PoolTake(scene._unique_ids) \in DOMAIN scene.replicables THEN 2 ELSE 1

\* add_replicable(cls, unique_id) with an explicit id, or without one
ScAdd(requested) ==
    /\ Len(sc.scene.objects) < MaxReplicables
    \* the pool holds an id for every take() of the call
    /\ TakesOf(sc.scene, requested) <= Cardinality(sc.scene._unique_ids)
    /\ LET scene == add_replicable(sc.scene, requested)
           replicable == Len(sc.scene.objects) + 1
       IN sc' = [sc EXCEPT
                    !.scene = scene,
                    !.original = Append(sc.original, scene.objects[replicable].unique_id),
                    !.added = [requested |-> requested,
                               replicable |-> replicable,
                               existing |-> IF scene.objects[replicable].unique_id
                                                \in DOMAIN sc.scene.replicables
                                            THEN sc.scene.replicables[scene.objects[replicable].unique_id]
                                            ELSE None,
                               before |-> sc.scene.replicables]]
    /\ UNCHANGED nonScVars

\* remove_replicable(replicable) for a replicable of the scene
ScRemove(replicable) ==
    /\ replicable \in InScene
    /\ sc.scene.replicables[sc.scene.objects[replicable].unique_id] = replicable
    /\ sc' = [sc EXCEPT !.scene = remove_replicable(sc.scene, replicable),
                        !.removed = sc.removed \cup {replicable},
                        !.added = NoAddition]
    /\ UNCHANGED nonScVars

ScNext ==
    \/ \E requested \in {None} \cup (0..(PoolSize - 1)) : ScAdd(requested)
    \/ \E replicable \in InScene : ScRemove(replicable)

(***************************************************************************)
(* The handshake of one connection, seen from both ends                    *)
(***************************************************************************)
\* a manager at the start of a handler: nothing assigned, nothing queued yet
Enter(m) == [m EXCEPT !.trail = <<m.state>>, !.queued = << >>]

\* the fields a manager keeps between handlers
Settled(m) == [m EXCEPT !.queued = << >>]

HsInit ==
    hs = [manager |-> [side \in Sides |-> Settled(Enter(Settled(create_handshake_manager(side))))],
          \* packets queued on each side's connection, oldest first
          out |-> [side \in Sides |-> create_handshake_manager(side).queued],
          \* packets delivered and not yet acknowledged to their sender
          awaiting |-> [side \in Sides |-> << >>],
          last_received_time |-> [side \in Sides |-> None],
          clock |-> 0,
          lost |-> 0,
          redelivered |-> 0,
          disconnect_requested |-> FALSE,
          failed_acked |-> FALSE,
          step |-> <<"create", "server">>]

\* the connection of a side is still registered with the network manager
Registered(side) == hs.manager[side].teardown = {}

\* the oldest packet queued by a side reaches the other side, whose listener runs
HsDeliver(side, refused) ==
    /\ hs.out[side] # << >>
    /\ LET packet == Head(hs.out[side])
           peer == Opposite(side)
           m == IF Registered(peer)
                THEN Dispatch(peer, Enter(hs.manager[peer]), packet, refused)
                ELSE Enter(hs.manager[peer])
       IN hs' = [hs EXCEPT
                    !.manager[peer] = Settled(m),
                    !.out = [s \in Sides |->
                               IF s = side THEN Tail(hs.out[side])
                               ELSE hs.out[s] \o m.queued],
                    !.awaiting[side] = Append(hs.awaiting[side], packet),
                    !.last_received_time[peer] = IF Registered(peer) THEN hs.clock
                                                 ELSE hs.last_received_time[peer],
                    !.step = <<"deliver", peer>>]
    /\ UNCHANGED nonHsVars

\* the acknowledgement of a delivered packet reaches its sender: on_success runs
HsAck(side) ==
    /\ hs.awaiting[side] # << >>
    /\ LET packet == Head(hs.awaiting[side])
           m == IF packet.on_success = "on_ack_handshake_failed"
                THEN on_ack_handshake_failed(Enter(hs.manager[side]))
                ELSE Enter(hs.manager[side])
       IN hs' = [hs EXCEPT
                    !.manager[side] = Settled(m),
                    !.awaiting[side] = Tail(hs.awaiting[side]),
                    !.failed_acked = (hs.failed_acked \/ packet.protocol = "handshake_failed"),
                    !.step = <<"ack", side>>]
    /\ UNCHANGED nonHsVars

\* the datagram of the oldest queued packet is lost: the sender requeues
\* the packet if it is reliable
HsLose(side) ==
    /\ hs.out[side] # << >>
    /\ hs.lost < MaxDrops
    /\ LET packet == Head(hs.out[side])
       IN hs' = [hs EXCEPT
                    !.out[side] = IF packet.reliable
                                  THEN Append(Tail(hs.out[side]), packet)
                                  ELSE Tail(hs.out[side]),
                    !.lost = hs.lost + 1,
                    !.step = <<"lose", side>>]
    /\ UNCHANGED nonHsVars

\* the acknowledgements of a delivered packet are lost for a whole ack
\* window: the sender judges the packet lost and requeues it if reliable
HsLoseAck(side) ==
    /\ hs.awaiting[side] # << >>
    /\ hs.redelivered < MaxRedeliveries
    /\ LET packet == Head(hs.awaiting[side])
       IN hs' = [hs EXCEPT
                    !.out[side] = IF packet.reliable
                                  THEN Append(hs.out[side], packet)
                                  ELSE hs.out[side],
                    !.awaiting[side] = Tail(hs.awaiting[side]),
                    !.redelivered = hs.redelivered + 1,
                    !.step = <<"lose_ack", side>>]
    /\ UNCHANGED nonHsVars

\* the client asks to be disconnected
HsRequestDisconnect ==
    /\ ~hs.disconnect_requested
    /\ hs' = [hs EXCEPT
                 !.out["client"] = Append(hs.out["client"],
                                          Packet("request_disconnect", TRUE, "none")),
                 !.disconnect_requested = TRUE,
                 !.step = <<"request_disconnect", "client">>]
    /\ UNCHANGED nonHsVars

\* time passes
HsElapse ==
    /\ hs.clock + ClockStep <= MaxClock
    /\ hs' = [hs EXCEPT !.clock = hs.clock + ClockStep, !.step = <<"elapse", "server">>]
    /\ UNCHANGED nonHsVars

\* a network tick on one side: pull_packets
HsPull(side) ==
    /\ Registered(side)
    /\ hs' = [hs EXCEPT
                 !.manager[side] = Settled(pull_packets(Enter(hs.manager[side]), hs.clock,
                                                        hs.last_received_time[side])),
                 !.step = <<"pull", side>>]
    /\ UNCHANGED nonHsVars

HsNext ==
    \/ \E side \in Sides, refused \in BOOLEAN : HsDeliver(side, refused)
    \/ \E side \in Sides : HsAck(side)
    \/ \E side \in Sides : HsLose(side)
    \/ \E side \in Sides : HsLoseAck(side)
    \/ HsRequestDisconnect
    \/ HsElapse
    \/ \E side \in Sides : HsPull(side)

(***************************************************************************)
(* Replicable registration (network/replicable.py)                         *)
(***************************************************************************)
\* the instance ids of the class's graph
InstanceIds == 0..(PoolSize - 1)

\* InstanceRegister.request_registration: the instance takes instance_id,
\* or random_key when instance_id is None, and enters the graph
register_instance(graph_state, instance, instance_id, random_key) ==
    LET key == IF instance_id = None THEN random_key ELSE instance_id
        left == {id \in DOMAIN graph_state.graph : graph_state.graph[id] # instance}
    IN [graph_state EXCEPT
           !.graph = [id \in left \cup {key} |->
                         IF id = key THEN instance ELSE graph_state.graph[id]],
           !.instances[instance].instance_id = key]

\* the first lines of Replicable.request_registration
claim_authority(graph_state, instance, instance_id) ==
    IF instance_id = None
    THEN [graph_state EXCEPT !.instances[instance]._local_authority = TRUE,
                             !.instances[instance]._static = FALSE]
    ELSE graph_state

\* Replicable.request_registration: the assert ends the call when the holder
\* of instance_id has no local authority; otherwise the holder registers
\* anew without an id and the instance takes instance_id
request_registration(graph_state, instance, instance_id, random_key) ==
    LET claimed == claim_authority(graph_state, instance, instance_id)
    IN IF instance_id \in DOMAIN claimed.graph
       THEN LET holder == claimed.graph[instance_id]
            IN IF ~claimed.instances[holder]._local_authority
               THEN [state |-> claimed, raised |-> "AssertionError"]
               ELSE [state |-> register_instance(
                                  register_instance(claim_authority(claimed, holder, None),
                                                    holder, None, random_key),
                                  instance, instance_id, random_key),
                     raised |-> "none"]
       ELSE [state |-> register_instance(claimed, instance, instance_id, random_key),
             raised |-> "none"]

\* Replicable.__init__ up to the call of the parent's __init__
NewReplicable(instance_id, static) ==
    [instance_id |-> None, _local_authority |-> FALSE,
     _static |-> static /\ instance_id # None]

NoRegistration == [requested |-> None]

RgInit ==
    sc = [instances |-> << >>,
          graph |-> << >>,
          last |-> NoRegistration]

\* the graph and the instances of the state
GraphState == [instances |-> sc.instances, graph |-> sc.graph]

\* the ids no instance holds
FreeIds == InstanceIds \ DOMAIN sc.graph

\* cls(instance_id=instance_id, static=static): the instance is created and
\* registers; an exception leaves the instance out of the graph
RgCreate(instance_id, static, random_key) ==
    /\ Len(sc.instances) < MaxInstances
    /\ random_key \in FreeIds
    /\ LET instance == Len(sc.instances) + 1
           created == [GraphState EXCEPT
                          !.instances = Append(@, NewReplicable(instance_id, static))]
           result == request_registration(created, instance, instance_id, random_key)
       IN sc' = [instances |-> result.state.instances,
                 graph |-> result.state.graph,
                 last |-> [requested |-> instance_id,
                           instance |-> instance,
                           holder |-> IF instance_id \in DOMAIN sc.graph
                                      THEN sc.graph[instance_id] ELSE None,
                           raised |-> result.raised]]
    /\ UNCHANGED nonScVars

\* Replicable.on_unregistered: the instance leaves the graph
RgUnregister(instance) ==
    /\ \E id \in DOMAIN sc.graph : sc.graph[id] = instance
    /\ sc' = [sc EXCEPT
                 !.graph = [id \in {k \in DOMAIN sc.graph : sc.graph[k] # instance} |->
                               sc.graph[id]],
                 !.last = NoRegistration]
    /\ UNCHANGED nonScVars

RgNext ==
    \/ \E instance_id \in {None} \cup InstanceIds, static \in BOOLEAN, random_key \in InstanceIds :
          RgCreate(instance_id, static, random_key)
    \/ \E instance \in 1..MaxInstances : RgUnregister(instance)

(***************************************************************************)
(* Server game loop: rewinding (bge_network/gameloop.py)                   *)
(***************************************************************************)
\* ServerGameLoop.get_pawn_states: position, rotation and the frames of the
\* playing animations, for the one pawn of the world
get_pawn_states(pawn) ==
    [position |-> pawn.position, rotation |-> pawn.rotation, animations |-> pawn.frame]

\* ServerGameLoop.save_pawn_states
save_pawn_states(rewind_data, tick, pawn) ==
    LET saved == DictPut(rewind_data, tick, get_pawn_states(pawn))
    IN IF Cardinality(DOMAIN saved) > RewindLength
       THEN DictPop(saved, CHOOSE first \in DOMAIN saved : \A other \in DOMAIN saved : first <= other)
       ELSE saved

\* ServerGameLoop.execute_in_past: the pawn when the call ends and the
\* exception that ends it; the callback leaves the pawn alone
execute_in_past(rewind_data, pawn, target_tick, callback_raises) ==
    IF target_tick \notin DOMAIN rewind_data
    THEN [pawn |-> pawn, raised |-> "ValueError"]
    ELSE LET past_state == rewind_data[target_tick]
             current_state == get_pawn_states(pawn)
             rewound == [position |-> past_state.position,
                         rotation |-> past_state.rotation,
                         frame |-> past_state.animations]
         IN IF callback_raises
            THEN [pawn |-> rewound, raised |-> "callback"]
            ELSE [pawn |-> [rewound EXCEPT !.position = current_state.position,
                                           !.rotation = current_state.rotation],
                  raised |-> "none"]

Coordinates == 0..MaxCoordinate

NoRewind == [target_tick |-> None]

RwInit ==
    gl = [tick |-> 0,
          pawn |-> [position |-> 0, rotation |-> 0, frame |-> 0],
          _rewind_data |-> << >>,
          last |-> NoRewind]

\* a tick of the server: physics and animations move the pawn, then
\* save_pawn_states
RwTick(position, rotation, frame) ==
    /\ gl.tick < MaxTicks
    /\ LET pawn == [position |-> position, rotation |-> rotation, frame |-> frame]
       IN gl' = [gl EXCEPT
                    !.tick = @ + 1,
                    !.pawn = pawn,
                    !._rewind_data = save_pawn_states(@, gl.tick + 1, pawn),
                    !.last = NoRewind]
    /\ UNCHANGED nonGlVars

\* PhysicsRewindSignal: execute_in_past(callback, target_tick)
RwExecuteInPast(target_tick, callback_raises) ==
    /\ LET result == execute_in_past(gl._rewind_data, gl.pawn, target_tick, callback_raises)
       IN gl' = [gl EXCEPT
                    !.pawn = result.pawn,
                    !.last = [target_tick |-> target_tick,
                              before |-> gl.pawn,
                              raised |-> result.raised]]
    /\ UNCHANGED nonGlVars

RwNext ==
    \/ \E position \in Coordinates, rotation \in Coordinates, frame \in Coordinates :
          RwTick(position, rotation, frame)
    \/ \E target_tick \in 1..MaxTicks, callback_raises \in BOOLEAN :
          RwExecuteInPast(target_tick, callback_raises)

(***************************************************************************)
(* Game loop: the phases of a tick (bge_network/gameloop.py)               *)
(***************************************************************************)
\* an order of the phases with the send at the start
update_scene_send_first(netmode) ==
    <<"send", "receive", "update", "physics", "post_physics", "animations">>

\* GameLoop.update_scene for the network scene, and what
\* ServerGameLoop.update_scene adds: the calls made, in order
update_scene(netmode) ==
    <<"receive">>
    \o (IF netmode # "server" THEN <<"player_input">> ELSE << >>)
    \o <<"update", "physics", "post_physics", "animations", "send">>
    \o (IF netmode = "server" THEN <<"save_pawn_states">> ELSE << >>)

TkInit ==
    \E netmode \in {"server", "client"} :
        gl = [tick |-> 0,
              netmode |-> netmode,
              ran |-> << >>,        \* the calls made in this tick so far
              socket |-> 0,         \* datagrams that wait in the socket
              applied |-> << >>,    \* the calls after which datagrams were applied
              outbound |-> << >>]   \* the calls after which datagrams were produced

\* a datagram reaches the socket
TkArrive ==
    /\ gl.socket < MaxWaiting
    /\ gl' = [gl EXCEPT !.socket = @ + 1]
    /\ UNCHANGED nonGlVars

\* the next call of update_scene: Network.receive applies every datagram
\* of the socket, Network.send produces the datagrams of the connections
TkPhase ==
    /\ Len(gl.ran) < Len(update_scene(gl.netmode))
    /\ LET phase == update_scene(gl.netmode)[Len(gl.ran) + 1]
       IN gl' = [gl EXCEPT
                    !.ran = Append(@, phase),
                    !.socket = IF phase = "receive" THEN 0 ELSE @,
                    !.applied = IF phase = "receive" /\ gl.socket > 0
                                THEN Append(@, gl.ran) ELSE @,
                    !.outbound = IF phase = "send" THEN Append(@, gl.ran) ELSE @]
    /\ UNCHANGED nonGlVars

\* GameLoop.dispatch: the next tick
TkEndTick ==
    /\ Len(gl.ran) = Len(update_scene(gl.netmode))
    /\ gl.tick < MaxTicks
    /\ gl' = [gl EXCEPT !.tick = @ + 1, !.ran = << >>,
                        !.applied = << >>, !.outbound = << >>]
    /\ UNCHANGED nonGlVars

TkNext ==
    \/ TkArrive
    \/ TkPhase
    \/ TkEndTick

(***************************************************************************)
(* The handshake of the connection interfaces                              *)
(* (network/connection_interfaces.py)                                      *)
(***************************************************************************)
\* the string handler: a length byte, then the characters
StringPack(characters) == <<Len(characters)>> \o characters
StringSize(bytes) == 1 + bytes[1]
StringUnpack(bytes) == SubSeq(bytes, 2, 1 + bytes[1])

\* the int handler's unpack_from: the first byte
IntUnpack(bytes) == bytes[1]

\* the values of WorldInfo.netmode sent in a handshake
HandshakeNetmodes == {0, 1}

\* type names and messages of the errors a server may report, as
\* character codes
ErrorTypeNames == {<<65>>, <<66, 76>>}
ErrorBodies == {<< >>, <<33>>}

\* the handshake packets a client may find in a datagram of its peer
AuthPackets ==
    {[protocol |-> "auth_success", payload |-> IntPack(netmode)] : netmode \in HandshakeNetmodes}
        \cup {[protocol |-> "auth_failure", payload |-> StringPack(name) \o StringPack(body)] :
                  name \in ErrorTypeNames, body \in ErrorBodies}

\* ConnectionInterface.__init__; errors holds the errors handed to
\* ConnectionErrorSignal, successes counts ConnectionSuccessSignal
NewInterface ==
    [status |-> "disconnected", connection |-> None, errors |-> << >>, successes |-> 0]

\* ConnectionInterface.connected
interface_connected(interface) ==
    [interface EXCEPT !.status = "connected", !.successes = @ + 1]

\* ClientInterface.receive_handshake: no return follows the error signal
client_receive_handshake(interface, packet) ==
    LET reported ==
            IF packet.protocol = "auth_failure"
            THEN [interface EXCEPT !.errors = Append(@, StringUnpack(packet.payload))]
            ELSE interface
        netmode == IntUnpack(packet.payload)
    IN interface_connected([reported EXCEPT !.connection = netmode])

\* ConnectionInterface.receive, the part after the acknowledgements: the
\* handshake members go to receive_handshake until the status is connected
interface_receive(interface, packet) ==
    IF interface.status # "connected" THEN client_receive_handshake(interface, packet)
    ELSE interface

\* the value of _auth_error while no error is stored (None in the source)
NoAuthError == << >>

\* the type name of NetworkError("Connection already in mediation")
AlreadyInMediation == <<77>>

\* ServerInterface.on_initialised
NewServerInterface == NewInterface @@ [_auth_error |-> NoAuthError, raised |-> "none"]

\* ServerInterface.receive_handshake; refused is the name of the
\* NetworkError that Rules.pre_initialise raises, NoAuthError when it accepts
server_receive_handshake(interface, netmode, refused) ==
    IF interface.connection # None
    THEN [interface EXCEPT !._auth_error = AlreadyInMediation]
    ELSE IF refused # NoAuthError
    THEN [interface EXCEPT !._auth_error = refused]
    ELSE [interface EXCEPT !.connection = netmode]

\* no packet (None in the source)
NoPacket == [protocol |-> "none", payload |-> << >>]

\* ServerInterface.get_handshake: the packet, NoPacket without one; the read of
\* self.auth_error, an attribute that is never set, raises AttributeError
server_get_handshake(interface) ==
    IF interface.connection = None
    THEN IF interface._auth_error # NoAuthError
         THEN [packet |-> NoPacket, raised |-> "AttributeError"]
         ELSE [packet |-> NoPacket, raised |-> "none"]
    ELSE [packet |-> [protocol |-> "auth_success", payload |-> IntPack(0)],
          raised |-> "none"]

\* ConnectionInterface.send on the server, up to the packets it collects
server_send(interface) ==
    IF interface.status = "disconnected"
    THEN LET handshake == server_get_handshake(interface)
         IN IF handshake.raised # "none"
            THEN [interface |-> [interface EXCEPT !.raised = handshake.raised], packet |-> NoPacket]
            ELSE [interface |-> [interface EXCEPT !.status = "handshake", !.raised = "none"],
                  packet |-> handshake.packet]
    ELSE [interface |-> [interface EXCEPT !.raised = "none"], packet |-> NoPacket]

AuInit ==
    hs = [client |-> NewInterface,
          server |-> NewServerInterface,
          sent |-> << >>,            \* the handshake packets the server sent
          requests |-> 0,
          handled |-> 0,             \* handshake packets given to the client
          last |-> NoPacket]

\* the client's first send: get_handshake, then the handshake status
AuClientSend ==
    /\ hs.client.status = "disconnected"
    /\ hs' = [hs EXCEPT !.client.status = "handshake", !.last = NoPacket]
    /\ UNCHANGED nonHsVars

\* a datagram of the peer with a handshake packet reaches the client
AuClientReceive(packet) ==
    /\ hs.handled < MaxHandshakePackets
    /\ hs' = [hs EXCEPT !.client = interface_receive(@, packet),
                        !.handled = @ + 1,
                        !.last = packet]
    /\ UNCHANGED nonHsVars

\* a request_auth packet reaches the server
AuServerReceive(netmode, refused) ==
    /\ hs.requests < MaxRequests
    /\ hs.server.status # "connected"
    /\ hs' = [hs EXCEPT !.server = server_receive_handshake(@, netmode, refused),
                        !.requests = @ + 1,
                        !.last = NoPacket]
    /\ UNCHANGED nonHsVars

\* the server's send
AuServerSend ==
    /\ LET sending == server_send(hs.server)
       IN hs' = [hs EXCEPT !.server = sending.interface,
                           !.sent = IF sending.packet = NoPacket THEN @ ELSE Append(@, sending.packet),
                           !.last = NoPacket]
    /\ UNCHANGED nonHsVars

\* the client acknowledges the server's auth_success: on_success
AuServerAck ==
    /\ hs.sent # << >>
    /\ hs.server.status = "handshake"
    /\ hs' = [hs EXCEPT !.server = interface_connected(@), !.last = NoPacket]
    /\ UNCHANGED nonHsVars

AuNext ==
    \/ AuClientSend
    \/ \E packet \in AuthPackets : AuClientReceive(packet)
    \/ \E netmode \in HandshakeNetmodes, refused \in {NoAuthError} \cup ErrorTypeNames :
           AuServerReceive(netmode, refused)
    \/ AuServerSend
    \/ AuServerAck

(***************************************************************************)
(* The destruction of a scene that holds controllers and their pawns       *)
(* (network_2/scene.py, game_system/replicables.py)                        *)
(***************************************************************************)
\* the replicable that next(iter(self.replicables.values())) yields: with
\* dynamic ids only, the map's order is the order of creation
FirstReplicable(scene) ==
    LET present == {scene.replicables[id] : id \in DOMAIN scene.replicables}
    IN CHOOSE replicable \in present : \A other \in present : replicable <= other

\* Scene.remove_replicable up to its replicable_removed message, inside a
\* destruction d: the pop raises KeyError when the id is not in the map;
\* removals lists the calls and whether the replicable was in the scene
pop_replicable(d, replicable) ==
    LET unique_id == d.scene.objects[replicable].unique_id
        in_scene == /\ unique_id \in DOMAIN d.scene.replicables
                    /\ d.scene.replicables[unique_id] = replicable
        called == Append(d.removals, [replicable |-> replicable, in_scene |-> in_scene])
    IN IF unique_id \notin DOMAIN d.scene.replicables
       THEN [d EXCEPT !.removals = called, !.raised = "KeyError"]
       ELSE [d EXCEPT !.scene = remove_replicable(d.scene, replicable), !.removals = called]

\* PawnController.on_destroyed: the controller removes its pawn; Pawn has
\* no on_destroyed of its own
controller_on_destroyed(d, pawns, replicable) ==
    IF pawns[replicable] # None THEN pop_replicable(d, pawns[replicable]) ELSE d

\* Scene.remove_replicable with the on_destroyed call of the replicable
remove_and_destroy(d, pawns, replicable) ==
    LET popped == pop_replicable(d, replicable)
    IN IF popped.raised # "none" THEN popped
       ELSE controller_on_destroyed(popped, pawns, replicable)

\* Scene.on_destroyed: the loop ends with the map empty or with an exception
RECURSIVE scene_on_destroyed(_, _)
scene_on_destroyed(d, pawns) ==
    IF d.raised # "none" \/ DOMAIN d.scene.replicables = {} THEN d
    ELSE scene_on_destroyed(remove_and_destroy(d, pawns, FirstReplicable(d.scene)), pawns)

SdInit ==
    sc = [scene |-> NewScene,
          controllers |-> {},        \* the replicables that are controllers
          pawns |-> << >>,           \* the pawn attribute of each replicable
          removals |-> << >>,        \* the remove_replicable calls of the last handler
          raised |-> "none",
          present |-> {},            \* the replicables in the scene when it is destroyed
          destroyed |-> FALSE]

\* the replicables in the scene
SdInScene == {sc.scene.replicables[id] : id \in DOMAIN sc.scene.replicables}

\* add_replicable(PawnController) on a client, or add_replicable(Pawn)
SdAdd(is_controller) ==
    /\ ~sc.destroyed
    /\ Len(sc.scene.objects) < MaxReplicables
    /\ sc.scene._unique_ids # {}
    /\ sc' = [sc EXCEPT
                 !.scene = add_replicable(@, None),
                 !.controllers = IF is_controller THEN @ \cup {Len(sc.scene.objects) + 1} ELSE @,
                 !.pawns = Append(@, None),
                 !.removals = << >>,
                 !.raised = "none"]
    /\ UNCHANGED nonScVars

\* PawnController.take_control
SdTakeControl(controller, pawn) ==
    /\ ~sc.destroyed
    /\ controller \in sc.controllers \cap SdInScene
    /\ pawn \in SdInScene \ sc.controllers
    /\ sc.pawns[controller] # pawn
    /\ sc' = [sc EXCEPT !.pawns[controller] = pawn, !.removals = << >>, !.raised = "none"]
    /\ UNCHANGED nonScVars

\* Scene.remove_replicable for a replicable of the scene
SdRemove(replicable) ==
    /\ ~sc.destroyed
    /\ replicable \in SdInScene
    /\ LET removed == remove_and_destroy([scene |-> sc.scene, removals |-> << >>, raised |-> "none"],
                                         sc.pawns, replicable)
       IN sc' = [sc EXCEPT !.scene = removed.scene,
                           !.removals = removed.removals,
                           !.raised = removed.raised]
    /\ UNCHANGED nonScVars

\* World.remove_scene: Scene.on_destroyed
SdDestroy ==
    /\ ~sc.destroyed
    /\ LET ended == scene_on_destroyed([scene |-> sc.scene, removals |-> << >>, raised |-> "none"],
                                       sc.pawns)
       IN sc' = [sc EXCEPT !.scene = ended.scene,
                           !.removals = ended.removals,
                           !.raised = ended.raised,
                           !.present = SdInScene,
                           !.destroyed = TRUE]
    /\ UNCHANGED nonScVars

SdNext ==
    \/ \E is_controller \in BOOLEAN : SdAdd(is_controller)
    \/ \E controller, pawn \in 1..MaxReplicables : SdTakeControl(controller, pawn)
    \/ \E replicable \in 1..MaxReplicables : SdRemove(replicable)
    \/ SdDestroy

(***************************************************************************)
(* The owner chain of replicables (network/replicable.py)                  *)
(***************************************************************************)
\* the registered replicables
Owned == 1..MaxOwned

\* Replicable.possessed_by
possessed_by(owners, replicable, other) == [owners EXCEPT ![replicable] = other]

\* Replicable.unpossessed
unpossessed(owners, replicable) == [owners EXCEPT ![replicable] = None]

\* the loop of Replicable.uppermost after `steps` more iterations: a walk
\* that has not ended after one iteration per replicable has met a
\* replicable twice and goes round for ever
RECURSIVE WalkOwners(_, _, _, _)
WalkOwners(owners, last, replicable, steps) ==
    IF replicable = None THEN [ended |-> TRUE, last |-> last]
    ELSE IF steps = 0 THEN [ended |-> FALSE, last |-> last]
    ELSE WalkOwners(owners, replicable, owners[replicable], steps - 1)

\* Replicable.uppermost
uppermost(owners, replicable) == WalkOwners(owners, None, replicable, MaxOwned)

NoWalk == [replicable |-> None, ended |-> TRUE, last |-> None]

\* Replicable.__init__ of each replicable: no owner
OwInit == gl = [owner |-> [replicable \in Owned |-> None], walk |-> NoWalk]

\* possession by another replicable
OwPossessedBy(replicable, other) ==
    /\ other # replicable
    /\ gl' = [owner |-> possessed_by(gl.owner, replicable, other), walk |-> NoWalk]
    /\ UNCHANGED nonGlVars

OwUnpossessed(replicable) ==
    /\ gl' = [owner |-> unpossessed(gl.owner, replicable), walk |-> NoWalk]
    /\ UNCHANGED nonGlVars

\* a read of replicable.uppermost, as the channel's permission test makes
OwUppermost(replicable) ==
    /\ gl' = [gl EXCEPT !.walk = [replicable |-> replicable] @@ uppermost(gl.owner, replicable)]
    /\ UNCHANGED nonGlVars

OwNext ==
    \/ \E replicable, other \in Owned : OwPossessedBy(replicable, other)
    \/ \E replicable \in Owned : OwUnpossessed(replicable)
    \/ \E replicable \in Owned : OwUppermost(replicable)

(***************************************************************************)
(* Scene channels on a scene whose ids are contested                       *)
(* (network/streams/replication/channels.py and                            *)
(*  network_2/streams/replication/channels.py on network_2/scene.py)       *)
(***************************************************************************)
\* the two scene channel classes
ChannelModules == {"network", "network_2"}

\* the message ids SceneChannelBase.__init__ subscribes its handlers to
subscriptions(module) ==
    IF module = "network"
    THEN [replicable_added |-> "on_replicable_added",
          replicable_removed |-> "on_replicable_removed"]
    ELSE [replicable_added |-> "on_replicable_added",
          replicable_remove |-> "on_replicable_removed"]

\* MessagePasser.send: the callback called for identifier, "none" without one
send(module, identifier) ==
    IF identifier \in DOMAIN subscriptions(module)
    THEN subscriptions(module)[identifier] ELSE "none"

\* on_replicable_added of the server's scene channel: replicable_channels
\* maps an id to the replicable its channel was made for; network's
\* ServerSceneChannel makes none for a torn off replicable
channel_on_replicable_added(module, replicable_channels, target, unique_id, torn_off) ==
    IF module = "network" /\ torn_off THEN replicable_channels
    ELSE DictPut(replicable_channels, unique_id, target)

\* on_replicable_removed of the server's scene channel: del and pop raise
\* KeyError when the id has no channel
channel_on_replicable_removed(replicable_channels, unique_id) ==
    IF unique_id \notin DOMAIN replicable_channels
    THEN [replicable_channels |-> replicable_channels, raised |-> "KeyError"]
    ELSE [replicable_channels |-> DictPop(replicable_channels, unique_id), raised |-> "none"]

\* what a channel of `module` does with the scene's message about target
deliver(module, identifier, replicable_channels, target, unique_id, torn_off) ==
    LET callback == send(module, identifier)
    IN IF callback = "on_replicable_added"
       THEN [replicable_channels |->
                 channel_on_replicable_added(module, replicable_channels, target, unique_id, torn_off),
             raised |-> "none"]
       ELSE IF callback = "on_replicable_removed"
       THEN channel_on_replicable_removed(replicable_channels, unique_id)
       ELSE [replicable_channels |-> replicable_channels, raised |-> "none"]

\* a scene and, for each channel class, a scene channel created on it while
\* it was empty; each channel is followed as the scene's only subscriber
SnInit ==
    rc = [scene |-> NewScene,
          torn_off |-> << >>,        \* torn_off of each replicable when added
          replicable_channels |-> [module \in ChannelModules |-> << >>],
          raised |-> [module \in ChannelModules |-> "none"]]

\* Scene.add_replicable with its replicable_added message
SnAdd(requested, torn_off) ==
    /\ Len(rc.scene.objects) < MaxReplicables
    /\ TakesOf(rc.scene, requested) <= Cardinality(rc.scene._unique_ids)
    /\ LET scene == add_replicable(rc.scene, requested)
           replicable == Len(rc.scene.objects) + 1
           delivered == [module \in ChannelModules |->
                            deliver(module, "replicable_added", rc.replicable_channels[module],
                                    replicable, scene.objects[replicable].unique_id, torn_off)]
       IN rc' = [scene |-> scene,
                 torn_off |-> Append(rc.torn_off, torn_off),
                 replicable_channels |->
                     [module \in ChannelModules |-> delivered[module].replicable_channels],
                 raised |-> [module \in ChannelModules |-> delivered[module].raised]]
    /\ UNCHANGED nonRcVars

\* Scene.remove_replicable with its replicable_removed message
SnRemove(replicable) ==
    /\ \E id \in DOMAIN rc.scene.replicables : rc.scene.replicables[id] = replicable
    /\ LET unique_id == rc.scene.objects[replicable].unique_id
           delivered == [module \in ChannelModules |->
                            deliver(module, "replicable_removed", rc.replicable_channels[module],
                                    replicable, unique_id, rc.torn_off[replicable])]
       IN rc' = [rc EXCEPT
                    !.scene = remove_replicable(rc.scene, replicable),
                    !.replicable_channels =
                        [module \in ChannelModules |-> delivered[module].replicable_channels],
                    !.raised = [module \in ChannelModules |-> delivered[module].raised]]
    /\ UNCHANGED nonRcVars

SnNext ==
    \/ \E requested \in {None} \cup (0..(PoolSize - 1)), torn_off \in BOOLEAN :
           SnAdd(requested, torn_off)
    \/ \E replicable \in 1..MaxReplicables : SnRemove(replicable)

(***************************************************************************)
(* Scene channel: replicable channels, shadow channels, inbound calls      *)
(***************************************************************************)
\* the replicated functions declared by the replicable's class: index -> the
\* bytes that deserialise reads for the arguments
function_descriptors == [index \in {0, 1} |-> index + 1]

\* an index that the class does not declare
UndeclaredIndex == 9

\* the root replicable of the connection that the scene channel serves
root_replicable == "root"

\* ShadowReplicableChannelBase.process_rpc_calls: nothing is invoked; the
\* descriptors are a dict, so an undeclared index raises KeyError, which the
\* except IndexError clause does not catch
RECURSIVE ShadowDecode(_, _)
ShadowDecode(data, offset) ==
    IF ~(offset < Len(data))
    THEN [offset |-> offset, raised |-> "none"]
    ELSE LET rpc_id == data[offset + 1]
         IN IF rpc_id \notin DOMAIN function_descriptors
            THEN [offset |-> offset + 1, raised |-> "KeyError"]
            ELSE ShadowDecode(data, offset + 1 + function_descriptors[rpc_id])

shadow_process_rpc_calls(data, start_offset) ==
    LET decoded == ShadowDecode(data, start_offset)
    IN [unpacked_bytes |-> IF decoded.raised = "none"
                           THEN decoded.offset - start_offset ELSE None,
        raised |-> decoded.raised,
        executed |-> << >>]

\* the loop of ReplicableChannelBase.process_rpc_calls, the same in both
\* branches but for the call of the function; the lookup of an undeclared
\* index in the replicable's function container ends the loop
RECURSIVE LiveDecode(_, _, _)
LiveDecode(data, offset, invokes) ==
    IF ~(offset < Len(data))
    THEN [offset |-> offset, executed |-> << >>]
    ELSE LET rpc_id == data[offset + 1]
         IN IF rpc_id \notin DOMAIN function_descriptors
            THEN [offset |-> offset + 1, executed |-> << >>]
            ELSE LET bytes_read == function_descriptors[rpc_id]
                     arguments == SubSeq(data, offset + 2, offset + 1 + bytes_read)
                     rest == LiveDecode(data, offset + 1 + bytes_read, invokes)
                 IN [offset |-> rest.offset,
                     executed |-> (IF invokes THEN <<<<rpc_id, arguments>>>> ELSE << >>)
                                     \o rest.executed]

\* a channel that lets every peer execute
everyone_has_permission(replicable, root) == TRUE

\* the condition of ReplicableChannelBase.process_rpc_calls
has_permission(replicable, root) ==
    replicable.replicate_to_owner /\ replicable.root = root

\* ReplicableChannelBase.process_rpc_calls
live_process_rpc_calls(replicable, data, start_offset, root) ==
    LET decoded == LiveDecode(data, start_offset, has_permission(replicable, root))
    IN [unpacked_bytes |-> decoded.offset - start_offset,
        raised |-> "none",
        executed |-> decoded.executed]

\* ShadowReplicableChannelBase.is_expired
is_expired(creation_time, now) == (now - creation_time) > shadow_lifetime

\* ServerSceneChannel.on_replicable_added: no channel for a torn off replicable
on_replicable_added(channel, unique_id, target) ==
    IF target.torn_off THEN channel
    ELSE [channel EXCEPT !.replicable_channels = @ \cup {unique_id}]

\* SceneChannelBase.on_replicable_removed: the del raises KeyError when the
\* id has no channel
on_replicable_removed(channel, unique_id, now) ==
    IF unique_id \notin channel.replicable_channels
    THEN [channel |-> channel, raised |-> "KeyError"]
    ELSE [channel |-> [channel EXCEPT
                          !.replicable_channels = @ \ {unique_id},
                          !.shadow_replicable_channels =
                              [id \in (DOMAIN @) \cup {unique_id} |->
                                  IF id = unique_id THEN now ELSE @[id]]],
          raised |-> "none"]

\* SceneChannelBase.cull_shadow_channels
cull_shadow_channels(channel, now) ==
    LET expired_shadows == {id \in DOMAIN channel.shadow_replicable_channels :
                               is_expired(channel.shadow_replicable_channels[id], now)}
    IN [channel EXCEPT
           !.shadow_replicable_channels =
               [id \in (DOMAIN @) \ expired_shadows |-> @[id]]]

\* the replicables a scene may hold: owned by the connection's root, owned
\* by another root, not replicated to the owner, torn off
ReplicableKinds ==
    {[torn_off |-> FALSE, replicate_to_owner |-> TRUE, root |-> "root"],
     [torn_off |-> FALSE, replicate_to_owner |-> TRUE, root |-> "other"],
     [torn_off |-> FALSE, replicate_to_owner |-> FALSE, root |-> "root"],
     [torn_off |-> TRUE, replicate_to_owner |-> TRUE, root |-> "root"]}

\* one packed call: the index, then the arguments
PackedCalls == {<<0, 1>>, <<1, 1, 2>>, <<UndeclaredIndex, 1>>}

RECURSIVE PayloadsOf(_)
PayloadsOf(calls) ==
    IF calls = 0 THEN {<< >>}
    ELSE {call \o rest : call \in PackedCalls, rest \in PayloadsOf(calls - 1)}

RpcPayloads == UNION {PayloadsOf(calls) : calls \in 1..MaxCalls}

\* unique ids of the replicables a scene channel sees
ChannelIds == {1, 2}

NoEvent == [op |-> "none"]

\* SceneChannelBase.__init__ on an empty scene
RcInit ==
    rc = [clock |-> 0,
          replicables |-> << >>,
          channel |-> [replicable_channels |-> {},
                       shadow_replicable_channels |-> << >>],
          last |-> NoEvent]

\* Scene.add_replicable and the replicable_added message
RcAdd(unique_id, target) ==
    /\ unique_id \notin DOMAIN rc.replicables
    /\ rc' = [rc EXCEPT
                 !.replicables = [id \in (DOMAIN @) \cup {unique_id} |->
                                     IF id = unique_id THEN target ELSE @[id]],
                 !.channel = on_replicable_added(@, unique_id, target),
                 !.last = NoEvent]
    /\ UNCHANGED nonRcVars

\* Scene.remove_replicable and the replicable_removed message
RcRemove(unique_id) ==
    /\ unique_id \in DOMAIN rc.replicables
    /\ LET removed == on_replicable_removed(rc.channel, unique_id, rc.clock)
       IN rc' = [rc EXCEPT
                    !.replicables = [id \in (DOMAIN @) \ {unique_id} |-> @[id]],
                    !.channel = removed.channel,
                    !.last = [op |-> "remove", unique_id |-> unique_id,
                              raised |-> removed.raised]]
    /\ UNCHANGED nonRcVars

RcElapse ==
    /\ rc.clock < MaxAge
    /\ rc' = [rc EXCEPT !.clock = @ + 1, !.last = NoEvent]
    /\ UNCHANGED nonRcVars

RcCull ==
    /\ rc' = [rc EXCEPT
                 !.channel = cull_shadow_channels(@, rc.clock),
                 !.last = [op |-> "cull",
                           shadows |-> rc.channel.shadow_replicable_channels]]
    /\ UNCHANGED nonRcVars

\* an rpc payload for unique_id reaches the channel that holds the id: the
\* replicable's channel or the shadow left by a replicable removed before.
\* A call leaves the channels as they are, so a second call in a row reaches
\* no state that the first does not reach and is left out
RcReceive(unique_id, is_shadow, data) ==
    /\ rc.last.op # "receive"
    /\ IF is_shadow
       THEN unique_id \in DOMAIN rc.channel.shadow_replicable_channels
       ELSE unique_id \in rc.channel.replicable_channels
    /\ LET result == IF is_shadow
                     THEN shadow_process_rpc_calls(data, 0)
                     ELSE live_process_rpc_calls(rc.replicables[unique_id], data, 0,
                                                 root_replicable)
       IN rc' = [rc EXCEPT
                    !.last = [op |-> "receive", unique_id |-> unique_id,
                              is_shadow |-> is_shadow, data |-> data,
                              unpacked_bytes |-> result.unpacked_bytes,
                              raised |-> result.raised,
                              executed |-> result.executed]]
    /\ UNCHANGED nonRcVars

RcNext ==
    \/ \E unique_id \in ChannelIds, target \in ReplicableKinds : RcAdd(unique_id, target)
    \/ \E unique_id \in ChannelIds : RcRemove(unique_id)
    \/ RcElapse
    \/ RcCull
    \/ \E unique_id \in ChannelIds, is_shadow \in BOOLEAN, data \in RpcPayloads :
          RcReceive(unique_id, is_shadow, data)

\* the handshake while no time passes: packets, acknowledgements, losses
HsRequestsNext ==
    \/ \E side \in Sides, refused \in BOOLEAN : HsDeliver(side, refused)
    \/ \E side \in Sides : HsAck(side)
    \/ \E side \in Sides : HsLose(side)
    \/ \E side \in Sides : HsLoseAck(side)
    \/ HsRequestDisconnect

\* the parts a specification does not exercise hold no object
FsIdle == fs = [fields |-> << >>, data |-> << >>, bytes |-> << >>, items |-> << >>, pc |-> "idle"]

ChIdle == ch = [fields |-> << >>]

MvIdle == mv = [moves |-> {}]

ScIdle == sc = [removed |-> {}]

HsIdle == hs = [clock |-> 0]

RcIdle == rc = [clock |-> 0]

GlIdle == gl = [tick |-> 0]

InitConn == ConnInit /\ FsIdle /\ ChIdle /\ MvIdle /\ ScIdle /\ HsIdle /\ RcIdle /\ GlIdle

InitFlag == ConnInit /\ FsInit /\ ChIdle /\ MvIdle /\ ScIdle /\ HsIdle /\ RcIdle /\ GlIdle

InitChan == ConnInit /\ FsIdle /\ ChInit /\ MvIdle /\ ScIdle /\ HsIdle /\ RcIdle /\ GlIdle

InitMove == ConnInit /\ FsIdle /\ ChIdle /\ MvInit /\ ScIdle /\ HsIdle /\ RcIdle /\ GlIdle

InitScene == ConnInit /\ FsIdle /\ ChIdle /\ MvIdle /\ ScInit /\ HsIdle /\ RcIdle /\ GlIdle

InitHand == ConnInit /\ FsIdle /\ ChIdle /\ MvIdle /\ ScIdle /\ HsInit /\ RcIdle /\ GlIdle

InitRegister == ConnInit /\ FsIdle /\ ChIdle /\ MvIdle /\ RgInit /\ HsIdle /\ RcIdle /\ GlIdle

InitRewind == ConnInit /\ FsIdle /\ ChIdle /\ MvIdle /\ ScIdle /\ HsIdle /\ RcIdle /\ RwInit

InitTick == ConnInit /\ FsIdle /\ ChIdle /\ MvIdle /\ ScIdle /\ HsIdle /\ RcIdle /\ TkInit

InitSceneChannel == ConnInit /\ FsIdle /\ ChIdle /\ MvIdle /\ ScIdle /\ HsIdle /\ SnInit /\ GlIdle

InitAuth == ConnInit /\ FsIdle /\ ChIdle /\ MvIdle /\ ScIdle /\ AuInit /\ RcIdle /\ GlIdle

InitDestroy == ConnInit /\ FsIdle /\ ChIdle /\ MvIdle /\ SdInit /\ HsIdle /\ RcIdle /\ GlIdle

InitOwner == ConnInit /\ FsIdle /\ ChIdle /\ MvIdle /\ ScIdle /\ HsIdle /\ RcIdle /\ OwInit

InitRpc == ConnInit /\ FsIdle /\ ChIdle /\ MvIdle /\ ScIdle /\ HsIdle /\ RcInit /\ GlIdle

SpecConn == InitConn /\ [][ConnNext]_vars

SpecFlag == InitFlag /\ [][FsNext]_vars

SpecChan == InitChan /\ [][ChNext]_vars

SpecMove == InitMove /\ [][MvNext]_vars

SpecScene == InitScene /\ [][ScNext]_vars

SpecHand == InitHand /\ [][HsNext]_vars

SpecLoss == InitConn /\ [][LossNext]_vars

SpecThrottle == InitConn /\ [][ThrottleNext]_vars

SpecSilent == InitConn /\ [][SilentNext]_vars

SpecLate == InitConn /\ [][LateNext]_vars

SpecRpc == InitRpc /\ [][RcNext]_vars

SpecRequests == InitHand /\ [][HsRequestsNext]_vars

SpecOwner == InitOwner /\ [][OwNext]_vars

SpecDestroy == InitDestroy /\ [][SdNext]_vars

SpecAuth == InitAuth /\ [][AuNext]_vars

SpecSceneChannel == InitSceneChannel /\ [][SnNext]_vars

SpecTick == InitTick /\ [][TkNext]_vars

SpecRewind == InitRewind /\ [][RwNext]_vars

SpecInputs == InitMove /\ [][InputsNext]_vars

SpecRegister == InitRegister /\ [][RgNext]_vars

(***************************************************************************)
(* C1                                                                      *)
(***************************************************************************)
\* the reliable packets held by an outstanding entry of connection c
Outstanding(c) == UNION {ReliableIds(c.requested_ack[s]) : s \in DOMAIN c.requested_ack}

\* C1: every reliable packet handed to queue_packet is eventually
\* acknowledged unless the connection times out.  Stated on finite runs: a
\* reliable packet that has not been acknowledged on a live connection is
\* still held by an outstanding entry, from which alone it can be
\* acknowledged or sent again.
C1_ReliableEventuallyAcked ==
    \A id \in 1..handed :
        \/ id \in conn["local"].acked
        \/ timed_out(conn["local"])
        \/ id \in Outstanding(conn["local"])

(***************************************************************************)
(* C2                                                                      *)
(***************************************************************************)
\* C2: unpack(pack(V)) yields exactly the key/value pairs of V
C2_UnpackPackRoundTrip ==
    fs.pc = "done" => ItemsToDict(fs.items) = fs.data

(***************************************************************************)
(* C3                                                                      *)
(***************************************************************************)
\* C3: with no datagram lost, once the channel has replicated after the
\* last write and every update has arrived, the client's value of every
\* attribute equals the server's, and the number of attribute updates put
\* on the wire equals the number of description changes
C3_ReplicationConverges ==
    /\ (~ch.dirty /\ ch.wire = << >>) => ch.client_data = ch.serialisable_data
    /\ ch.wire_updates = ch.description_changes

(***************************************************************************)
(* C4                                                                      *)
(***************************************************************************)
\* C4: get_attributes outputs an attribute only when its description
\* differs from the one recorded, records the new description, and returns
\* no payload (no attribute_update is emitted) when nothing differs
C4_OnlyChangedAttributes ==
    /\ \A k \in DOMAIN ch.call.to_serialise :
          /\ ch.call.before[k] # static_description(ch.call.values[k])
          /\ ch.call.to_serialise[k] = ch.call.values[k]
          /\ ch.last_replicated_descriptions[k] = static_description(ch.call.values[k])
    /\ (\A k \in DOMAIN ch.call.values :
            ch.call.before[k] = static_description(ch.call.values[k])) => ~ch.call.packet

\* a replication round that found a changed attribute and emitted it
C4_Witness ==
    /\ ch.call.packet
    /\ DOMAIN ch.call.to_serialise # {}
    /\ DOMAIN ch.call.to_serialise # DOMAIN ch.call.values

(***************************************************************************)
(* C5                                                                      *)
(***************************************************************************)
\* C5: the receiver executes the reliable calls of one replicable in the
\* order of their invocation: no reliable call is executed after a reliable
\* call invoked later
C5_ReliableRpcInOrder ==
    LET reliable_executed == SelectSeq(conn["remote"].executed, LAMBDA n : invoked[n])
    IN \A i, j \in DOMAIN reliable_executed :
          i < j => reliable_executed[i] <= reliable_executed[j]

(***************************************************************************)
(* C6                                                                      *)
(***************************************************************************)
\* C6: after the client has handled a correction C, its pawn is in the
\* state reached from C by replaying, in increasing id order, exactly the
\* stored inputs with an id greater than C's; the input of C's own move is
\* not replayed
C6_ReplayAfterCorrection ==
    LET r == mv.reconciled
    IN r.move_id # None =>
          r.result = ReplayStates(r.position, r.sent_states, r.move_id + 1, r.client_move_id)

(***************************************************************************)
(* C7                                                                      *)
(***************************************************************************)
\* C7: once the server has found move M valid the client re-applies no
\* input with an id of M or less, and the client holds no state older than
\* the move the server last answered for
C7_NoReplayOfAcknowledged ==
    /\ \A id \in mv.reconciled.replayed : id > mv.reconciled.validated
    /\ mv.reconciled.move_id # None =>
          \A id \in DOMAIN mv.client.sent_states : id >= mv.reconciled.move_id

C9_SecondApplicationSilent ==
    ch.application.duplicate =>
        /\ ch.application.after = ch.application.before
        /\ ch.application.notifications = << >>

(***************************************************************************)
(* C10                                                                     *)
(***************************************************************************)
\* C10: within one attribute_update every store precedes every
\* on_replicated notification, and the notifications are issued in the
\* declaration order of the attributes
C10_NotifyAfterDecodeInDeclarationOrder ==
    LET events == ch.application.events
        notifications == ch.application.notifications
    IN /\ \A i, j \in DOMAIN events :
             (events[i][1] = "store" /\ events[j][1] = "on_replicated") => i < j
       /\ \A i, j \in DOMAIN notifications :
             i < j => notifications[i] < notifications[j]

(***************************************************************************)
(* C11                                                                     *)
(***************************************************************************)
\* C11: after add_replicable with an explicit id held by a dynamic
\* replicable, the new replicable is stored under that id and the previous
\* holder under another id that was free before, its unique_id set to it
C11_ContestMovesDynamicHolder ==
    LET a == sc.added
    IN (a.requested # None /\ a.existing # None /\ ~sc.scene.objects[a.existing].is_static) =>
          /\ sc.scene.replicables[a.requested] = a.replicable
          /\ \E id \in DOMAIN sc.scene.replicables :
                /\ id # a.requested
                /\ id \notin DOMAIN a.before
                /\ sc.scene.replicables[id] = a.existing
                /\ sc.scene.objects[a.existing].unique_id = id

(***************************************************************************)
(* C12                                                                     *)
(***************************************************************************)
\* C12: a replicable added with an explicit id keeps that id, and is stored
\* under it, for as long as it is in the scene
C12_StaticKeepsId ==
    \A replicable \in DOMAIN sc.scene.objects :
        (sc.scene.objects[replicable].is_static /\ replicable \notin sc.removed) =>
            /\ sc.scene.objects[replicable].unique_id = sc.original[replicable]
            /\ sc.original[replicable] \in DOMAIN sc.scene.replicables
            /\ sc.scene.replicables[sc.original[replicable]] = replicable

(***************************************************************************)
(* C13                                                                     *)
(***************************************************************************)
TerminalStates == {"connected", "failed", "disconnected", "timed_out"}

\* the steps of init -> awaiting_handshake -> received_handshake -> terminal;
\* a terminal state may be exchanged for another terminal state
AllowedStep(from, to) ==
    \/ from = to
    \/ from = "init" /\ to = "awaiting_handshake"
    \/ from = "awaiting_handshake" /\ to = "received_handshake"
    \/ from = "received_handshake" /\ to \in TerminalStates
    \/ from \in TerminalStates /\ to \in TerminalStates

\* C13: on both sides every assignment a handler makes to the handshake
\* state follows init -> awaiting_handshake -> received_handshake -> one of
\* connected, failed, disconnected, timed_out, and never leads from one of
\* those four back to an earlier state
C13_StatePathRespected ==
    \A side \in Sides :
        LET trail == hs.manager[side].trail
        IN \A i \in 1..(Len(trail) - 1) : AllowedStep(trail[i], trail[i + 1])

(***************************************************************************)
(* C14                                                                     *)
(***************************************************************************)
\* the handshake_failed packets the server has queued or has in flight
FailedPackets ==
    {p \in {hs.out["server"][i] : i \in DOMAIN hs.out["server"]}
           \cup {hs.awaiting["server"][i] : i \in DOMAIN hs.awaiting["server"]} :
        p.protocol = "handshake_failed"}

\* C14: once pre_initialise has refused the connection, the handshake_failed
\* packet of the server is reliable, the server has no replication manager,
\* and the connection is destroyed by the acknowledgement of that packet:
\* destroyed once it is acknowledged and, without a timeout or a disconnect
\* request, not before
C14_RefusalSentReliably ==
    LET m == hs.manager["server"]
    IN m.handshake_error =>
          /\ \A p \in FailedPackets : p.reliable
          /\ m.replication_managers = 0
          /\ hs.failed_acked => "ack" \in m.teardown
          /\ "ack" \in m.teardown => hs.failed_acked

(***************************************************************************)
(* C15                                                                     *)
(***************************************************************************)
\* C15: the client never constructs a second replication manager, whatever
\* handshake_success, handshake_failed and invoke_handshake packets arrive
C15_OneClientReplicationManager ==
    hs.manager["client"].replication_managers <= 1

(***************************************************************************)
(* C16                                                                     *)
(***************************************************************************)
\* the time a side has heard nothing, counted from creation (time 0) until
\* the first datagram arrives
Silence(side) ==
    hs.clock - (IF hs.last_received_time[side] = None THEN 0 ELSE hs.last_received_time[side])

\* C16: after a network tick on a side that has heard nothing for longer
\* than timeout_duration, that side's state is timed_out and its connection
\* is torn down
C16_SilenceTimesOut ==
    \A side \in Sides :
        (hs.step = <<"pull", side>> /\ Silence(side) > handshake_timeout_duration) =>
            /\ hs.manager[side].state = "timed_out"
            /\ hs.manager[side].teardown # {}

(***************************************************************************)
(* C17 - C20: one call of _update_reliable_information                     *)
(***************************************************************************)
\* the step is receive_message on connection c
IsReceive(c) ==
    /\ turn = c
    /\ net[c] # << >>
    /\ conn'[c] = receive_message(conn[c], Head(net[c]))
    /\ net'[c] = Tail(net[c])

\* the entries whose on_ack runs, and the entries judged lost, when c
\* handles the datagram at the head of its link
AckedNow(c) ==
    Acknowledged(conn[c], Head(net[c]).ack_base, Head(net[c]).ack_bitfield)
DroppedNow(c) ==
    considered_dropped(AfterAcks(conn[c], Head(net[c]).ack_base, Head(net[c]).ack_bitfield),
                       Head(net[c]).ack_base)
\* the entries judged lost whose on_not_ack runs: those with reliable members
NotAckedNow(c) == {s \in DroppedNow(c) : to_reliable(conn[c].requested_ack[s]) # << >>}

\* C17: an entry leaves requested_ack, or is replaced in it, only in a step
\* that runs exactly one of its callbacks on_ack and on_not_ack
C17_ExactlyOneCallback ==
    [][\A c \in Peers : \A s \in DOMAIN conn[c].requested_ack :
          (s \notin DOMAIN conn'[c].requested_ack
             \/ conn'[c].requested_ack[s] # conn[c].requested_ack[s]) =>
                /\ IsReceive(c)
                /\ (s \in AckedNow(c)) # (s \in NotAckedNow(c))]_vars

\* C18: when a datagram with ack base b and bitmap B is handled, every
\* outstanding entry whose sequence is b, or (b - (i+1)) modulo 256 for a
\* set bit i of B, is removed with its on_ack run
C18_BitmapAcksAcrossWrap ==
    [][\A c \in Peers : IsReceive(c) =>
          LET b == Head(net[c]).ack_base
              B == Head(net[c]).ack_bitfield
          IN \A s \in DOMAIN conn[c].requested_ack :
                (s = b \/ \E i \in 1..ack_window :
                             B[i] /\ s = (b - i) % (sequence_max_size + 1)) =>
                    /\ s \in AckedNow(c)
                    /\ s \notin DOMAIN conn'[c].requested_ack]_vars

\* how far sequence s is behind base b, wrap-safely: 0 when s is not older
Behind(b, s) ==
    IF _is_more_recent(b, s) THEN (b - s) % (sequence_max_size + 1) ELSE 0

\* C19: the entries judged lost when a datagram with ack base b is handled
\* are exactly the outstanding entries 32 or more behind b, measured
\* modulo 256; their reliable packets are queued again
C19_LostExactlyBeyondWindow ==
    [][\A c \in Peers : IsReceive(c) =>
          LET b == Head(net[c]).ack_base
              B == Head(net[c]).ack_bitfield
          IN \A s \in DOMAIN AfterAcks(conn[c], b, B).requested_ack :
                (s \in DroppedNow(c)) <=> (Behind(b, s) >= ack_window)]_vars

\* half of a bandwidth estimate
Half(bandwidth) == NormBandwidth([num |-> bandwidth.num, exp |-> bandwidth.exp + 1])

\* C20: handling a datagram that finds a lost reliable entry halves the
\* bandwidth estimate once, whatever the number of lost entries, and leaves
\* throttle_pending true
C20_LossHalvesOnce ==
    [][\A c \in Peers : (IsReceive(c) /\ NotAckedNow(c) # {}) =>
          LET b == Head(net[c]).ack_base
              B == Head(net[c]).ack_bitfield
              requeued == DropLoop(AfterAcks(conn[c], b, B), SortedSeq(DroppedNow(c)), FALSE).conn
          IN /\ conn'[c].bandwidth = Half(requeued.bandwidth)
             /\ conn'[c].throttle_pending]_vars

(***************************************************************************)
(* C21                                                                     *)
(***************************************************************************)
\* the datagram at the head of c's link acknowledges sequence s: s is its
\* ack base, or a set bit i of its bitmap stands for s = (b - (i+1)) mod 256
Acknowledges(c, s) ==
    LET b == Head(net[c]).ack_base
        B == Head(net[c]).ack_bitfield
    IN \/ s = b
       \/ \E i \in 1..ack_window : B[i] /\ s = (b - i) % (sequence_max_size + 1)

\* the step is receive_message on c and acknowledges the tagged datagram
TagAcknowledged(c) ==
    /\ IsReceive(c)
    /\ conn[c].tagged_throttle_sequence \in DOMAIN conn[c].requested_ack
    /\ Acknowledges(c, conn[c].tagged_throttle_sequence)

\* C21: with throttle_pending true and no tag, the next datagram queued is
\* tagged; with a tag, the acknowledgement of the tagged datagram clears the
\* tag and throttle_pending, and no other step changes either
C21_ThrottleTagLifecycle ==
    [][\A c \in Peers : conn[c].throttle_pending =>
          IF conn[c].tagged_throttle_sequence = None
          THEN /\ conn'[c].throttle_pending
               /\ conn'[c].local_sequence # conn[c].local_sequence =>
                     conn'[c].tagged_throttle_sequence = NextSequence(c)
          ELSE IF TagAcknowledged(c)
               THEN conn'[c].tagged_throttle_sequence = None
               ELSE /\ conn'[c].throttle_pending
                    /\ conn'[c].tagged_throttle_sequence = conn[c].tagged_throttle_sequence]_vars

(***************************************************************************)
(* C22                                                                     *)
(***************************************************************************)
\* C22: requested_ack never holds more than ack_window (32) entries
C22_OutstandingBounded ==
    \A c \in Peers : Cardinality(DOMAIN conn[c].requested_ack) <= ack_window

(***************************************************************************)
(* C23                                                                     *)
(***************************************************************************)
\* the circular distance by which sequence s is ahead of sequence r
Ahead(s, r) == (s - r) % (sequence_max_size + 1)

\* the sequence of the datagram that the step hands to receive_message on c
Arriving(c) ==
    IF net[c] # << >> /\ conn'[c] = receive_message(conn[c], Head(net[c]))
    THEN Head(net[c]).sequence
    ELSE IF c = "local" /\ net["held"] # << >>
              /\ conn'[c] = receive_message(conn[c], Head(net["held"]))
         THEN Head(net["held"]).sequence
         ELSE None

\* the step delivers the copy the network held back: a datagram that local
\* has received before, older than every datagram received since
IsLateArrival == net["held"] # << >> /\ net'["held"] = << >>

\* C23: local_sequence and remote_sequence lie in 0..255; a received
\* sequence replaces remote_sequence exactly when it is ahead of it by a
\* circular distance of 1..128; of two distinct sequences exactly one is
\* more recent; a duplicated older datagram never moves remote_sequence
C23_RemoteSequenceAdvancesOnly ==
    [][/\ \A c \in Peers :
            /\ conn[c].local_sequence \in 0..sequence_max_size
            /\ conn[c].remote_sequence \in 0..sequence_max_size
            /\ \A s \in 0..sequence_max_size :
                  s # conn[c].remote_sequence =>
                      (_is_more_recent(s, conn[c].remote_sequence)
                         # _is_more_recent(conn[c].remote_sequence, s))
            /\ IF Arriving(c) # None
                   /\ Ahead(Arriving(c), conn[c].remote_sequence) \in 1..((sequence_max_size + 1) \div 2)
               THEN conn'[c].remote_sequence = Arriving(c)
               ELSE conn'[c].remote_sequence = conn[c].remote_sequence
       /\ IsLateArrival =>
              conn'["local"].remote_sequence = conn["local"].remote_sequence]_vars

(***************************************************************************)
(* C24                                                                     *)
(***************************************************************************)
\* the datagrams that request_messages produces in the step and puts on the
\* link from c to its peer; the datagrams that a receipt had queued before
\* leave with them and are not counted
QueuedNow(c) ==
    LET before == Len(net[Other(c)]) + Len(conn[c].queue)
        after == Len(net'[Other(c)])
    IN IF turn = c /\ after > before
       THEN {net'[Other(c)][k] : k \in (before + 1)..after}
       ELSE {}

\* C24: in every datagram produced by queue_packet, bit i of the ack bitmap
\* is set if and only if sequence (remote_sequence - (i+1)) modulo 256 is in
\* received_window (index = i + 1 counts the bits from 1)
C24_BitmapMirrorsWindow ==
    [][\A c \in Peers : \A message \in QueuedNow(c) :
          \A index \in 1..ack_window :
              message.ack_bitfield[index]
                 <=> InWindow(conn[c].received_window,
                              (conn[c].remote_sequence - index) % (sequence_max_size + 1))]_vars

(***************************************************************************)
(* C25                                                                     *)
(***************************************************************************)
\* the calls of a payload up to the first index that is not declared, and
\* whether the payload ends before such an index
RECURSIVE CallsBefore(_)
CallsBefore(data) ==
    IF data = << >> THEN [calls |-> << >>, complete |-> TRUE]
    ELSE IF Head(data) \notin DOMAIN function_descriptors
         THEN [calls |-> << >>, complete |-> FALSE]
         ELSE LET size == function_descriptors[Head(data)]
                  rest == CallsBefore(SubSeq(data, size + 2, Len(data)))
              IN [calls |-> <<<<Head(data), SubSeq(data, 2, size + 1)>>>> \o rest.calls,
                  complete |-> rest.complete]

\* the last step handed a payload to the channel of a replicable in the scene
LiveCall == rc.last.op = "receive" /\ ~rc.last.is_shadow

\* the bytes that the call returns for the payload when the replicable is
\* owned by the connection's root
PermittedBytes(data) ==
    live_process_rpc_calls([torn_off |-> FALSE, replicate_to_owner |-> TRUE,
                            root |-> root_replicable],
                           data, 0, root_replicable).unpacked_bytes

C26_UndeclaredIndexStopsQuietly ==
    rc.last.op = "receive" =>
        /\ rc.last.raised = "none"
        /\ rc.last.executed =
              IF ~rc.last.is_shadow
                 /\ has_permission(rc.replicables[rc.last.unique_id], root_replicable)
              THEN CallsBefore(rc.last.data).calls
              ELSE << >>

(***************************************************************************)
(* C27                                                                     *)
(***************************************************************************)
\* C27: the removal of a replicable leaves a shadow channel under its id; a
\* payload of declared calls for a shadow is consumed whole and executes
\* nothing; cull_shadow_channels removes exactly the shadows older than the
\* lifetime
C27_ShadowForLifetime ==
    LET shadows == rc.channel.shadow_replicable_channels
    IN /\ rc.last.op = "remove" =>
             /\ rc.last.raised = "none"
             /\ rc.last.unique_id \in DOMAIN shadows
             /\ shadows[rc.last.unique_id] = rc.clock
       /\ (rc.last.op = "receive" /\ rc.last.is_shadow
             /\ CallsBefore(rc.last.data).complete) =>
             /\ rc.last.raised = "none"
             /\ rc.last.executed = << >>
             /\ rc.last.unpacked_bytes = Len(rc.last.data)
       /\ rc.last.op = "cull" =>
             DOMAIN shadows = {id \in DOMAIN rc.last.shadows :
                                  rc.clock - rc.last.shadows[id] <= shadow_lifetime}

(***************************************************************************)
(* C28                                                                     *)
(***************************************************************************)
\* C28: a registration under an id that an instance holds always completes:
\* the new instance takes the id and the holder is registered under another
\* id, whether or not the holder is locally authoritative
C28_ContestNeverFatal ==
    (sc.last.requested # None /\ sc.last.holder # None) =>
        /\ sc.last.raised = "none"
        /\ sc.graph[sc.last.requested] = sc.last.instance
        /\ \E id \in DOMAIN sc.graph :
              id # sc.last.requested /\ sc.graph[id] = sc.last.holder

(***************************************************************************)
(* C29                                                                     *)
(***************************************************************************)
\* C29: the client's move_id is incremented modulo 1000, so it lies in
\* 0..999, and every id passed to server_receive_move stays within the range
\* that the call declares
C29_MoveIdWithinRange ==
    /\ mv.client.move_id \in 0..(move_id_max_value - 1)
    /\ \A message \in mv.moves : message.move_id \in 0..move_id_max_value

(***************************************************************************)
(* C30                                                                     *)
(***************************************************************************)
\* the client_correct_move call that the step hands to the client
Correcting ==
    IF mv'.redelivered > mv.redelivered THEN mv.last_correction
    ELSE IF Len(mv'.corrections) < Len(mv.corrections) THEN Head(mv.corrections)
    ELSE NoCorrection

\* C30: a correction whose move id is not newer than that of the corrections
\* applied before (they arrive in ascending order, so than that of the last
\* one) leaves the client's pawn, stored inputs and latest_correction_id as
\* they are
C30_StaleCorrectionIgnored ==
    [][(/\ Correcting # NoCorrection
        /\ mv.last_correction # NoCorrection
        /\ Correcting.move_id <= mv.last_correction.move_id)
          => mv'.client = mv.client]_vars

(***************************************************************************)
(* C31                                                                     *)
(***************************************************************************)
\* C31: when execute_in_past has ended - the callback returned, the
\* callback raised, or target_tick was not in the rewind buffer - the pawn's
\* position, rotation and animation frame are those from before the call
C31_PresentRestored ==
    gl.last # NoRewind => gl.pawn = gl.last.before

(***************************************************************************)
(* C32                                                                     *)
(***************************************************************************)
\* the phases that the claim names, in its order
TickOrder == <<"receive", "update", "physics", "post_physics", "send">>

\* the calls of a tick that are phases named by the claim
NamedPhases(ran) == SelectSeq(ran, LAMBDA phase : \E k \in DOMAIN TickOrder : TickOrder[k] = phase)

\* the calls made before, as a set
Before(ran) == {ran[k] : k \in DOMAIN ran}

\* C32: in every tick the phases receive, update, physics, post-physics and
\* send run once each in this order; datagrams are produced only after the
\* receive of the tick, and none is applied once physics has run
C32_PhasesInOrder ==
    [][/\ NamedPhases(gl'.ran) = SubSeq(TickOrder, 1, Len(NamedPhases(gl'.ran)))
       /\ Len(gl'.ran) = Len(update_scene(gl'.netmode)) => NamedPhases(gl'.ran) = TickOrder
       /\ \A k \in DOMAIN gl'.outbound : "receive" \in Before(gl'.outbound[k])
       /\ \A k \in DOMAIN gl'.applied : "physics" \notin Before(gl'.applied[k])]_vars

\* a tick has ended in which datagrams were applied and produced, while a
\* datagram that arrived after the receive waits for the next tick
C32_Witness ==
    /\ Len(gl.ran) = Len(update_scene(gl.netmode))
    /\ gl.applied # << >>
    /\ gl.outbound # << >>
    /\ gl.socket > 0

(***************************************************************************)
(* C33                                                                     *)
(***************************************************************************)
\* the step hands a request_handshake packet to the server's listener
RequestArrives ==
    /\ hs'.step = <<"deliver", "server">>
    /\ hs.out["client"] # << >>
    /\ Head(hs.out["client"]).protocol = "request_handshake"
    /\ Registered("server")

\* the handshake results that the step queues on the server's connection
ResultsQueued ==
    IF hs'.step = <<"deliver", "server">>
    THEN SelectSeq(SubSeq(hs'.out["server"], Len(hs.out["server"]) + 1, Len(hs'.out["server"])),
                   LAMBDA packet : packet.protocol \in {"handshake_success", "handshake_failed"})
    ELSE << >>

\* C33: the server acts on request_handshake only while awaiting_handshake,
\* a state it never enters again: a request that arrives in another state
\* changes nothing and queues nothing, so for the connection there is at
\* most one pre_initialise call, one ServerReplicationManager and one result
C33_RequestHandledOnce ==
    [][LET before == hs.manager["server"]
           after == hs'.manager["server"]
       IN /\ before.state # "awaiting_handshake" => after.state # "awaiting_handshake"
          /\ (RequestArrives /\ before.state # "awaiting_handshake") =>
                /\ after.state = before.state
                /\ after.handshake_error = before.handshake_error
                /\ after.replication_managers = before.replication_managers
                /\ hs'.out["server"] = hs.out["server"]
          /\ ResultsQueued # << >> =>
                /\ Len(ResultsQueued) = 1
                /\ RequestArrives
                /\ before.state = "awaiting_handshake"
          /\ after.replication_managers <= 1]_vars

\* a second request_handshake has reached the server after it connected
C33_Witness ==
    /\ hs.step = <<"deliver", "server">>
    /\ hs.awaiting["client"] # << >>
    /\ hs.awaiting["client"][Len(hs.awaiting["client"])].protocol = "request_handshake"
    /\ hs.manager["server"].trail = <<"connected">>
    /\ hs.manager["server"].replication_managers = 1

(***************************************************************************)
(* C34                                                                     *)
(***************************************************************************)
\* C34: once the client has applied client_correct_move for move k (the
\* last correction it handled), its latest_correction_id is k, and so is
\* the latest_correction_id of the server_receive_move call it makes next
C34_LatestCorrectionIsCorrectedMove ==
    [][Correcting # NoCorrection =>
          /\ mv'.client.latest_correction_id = Correcting.move_id
          /\ client_send_move(mv'.client).latest_correction_id = Correcting.move_id]_vars

(***************************************************************************)
(* C35                                                                     *)
(***************************************************************************)
\* C35: whenever on_tick takes a move from the jitter buffer and marks it as
\* pending validation, client_moves_states holds the state the client
\* reported for that id when server_validate_last_move looks it up
C35_PendingMoveHasClientState ==
    [][mv'.applied # mv.applied =>
          on_tick(mv.server).pending_validation_move_id
              \in DOMAIN on_tick(mv.server).client_moves_states]_vars

(***************************************************************************)
(* C36                                                                     *)
(***************************************************************************)
\* C36: after any adds (id contests included) and removes, each scene
\* channel has an entry under id u exactly when a replicable that was not
\* torn off when added is in the scene under u, the entry is the channel of
\* that replicable, and no removal failed to find its channel
C36_ChannelsMirrorScene ==
    \A module \in ChannelModules :
        /\ \A unique_id \in 0..(PoolSize - 1) :
              /\ unique_id \in DOMAIN rc.replicable_channels[module]
                    <=> /\ unique_id \in DOMAIN rc.scene.replicables
                        /\ ~rc.torn_off[rc.scene.replicables[unique_id]]
              /\ unique_id \in DOMAIN rc.replicable_channels[module]
                    => rc.replicable_channels[module][unique_id] = rc.scene.replicables[unique_id]
        /\ rc.raised[module] = "none"

(***************************************************************************)
(* C37                                                                     *)
(***************************************************************************)
\* the step is receive_message on c and judges the tagged datagram lost: it
\* leaves requested_ack without having been acknowledged
TaggedJudgedLost(c) ==
    /\ IsReceive(c)
    /\ conn[c].throttle_pending
    /\ conn[c].tagged_throttle_sequence \in DOMAIN conn[c].requested_ack
    /\ ~Acknowledges(c, conn[c].tagged_throttle_sequence)
    /\ conn[c].tagged_throttle_sequence \notin DOMAIN conn'[c].requested_ack

\* C37: when the datagram that carries the tagged throttle sequence is
\* lost, the tag is released or moved to a later datagram, so that a later
\* acknowledgement can end the throttling
C37_LostTagReleased ==
    [][\A c \in Peers : TaggedJudgedLost(c) =>
          conn'[c].tagged_throttle_sequence # conn[c].tagged_throttle_sequence]_vars

(***************************************************************************)
(* C38                                                                     *)
(***************************************************************************)
\* the step hands a handshake packet to the client interface
ClientHandles == hs'.handled = hs.handled + 1

\* C38: a client that receives auth_failure reports the error, creates no
\* ClientConnection and does not become connected; only auth_success makes
\* it connected
C38_FailureNeverConnects ==
    [][ClientHandles =>
          /\ (hs'.last.protocol = "auth_failure" /\ hs.client.status # "connected") =>
                /\ hs'.client.errors = Append(hs.client.errors, StringUnpack(hs'.last.payload))
                /\ hs'.client.connection = hs.client.connection
                /\ hs'.client.status # "connected"
          /\ (hs'.client.status = "connected" /\ hs.client.status # "connected") =>
                hs'.last.protocol = "auth_success"]_vars

(***************************************************************************)
(* C39                                                                     *)
(***************************************************************************)
\* C39: Scene.on_destroyed ends with an empty map, without an exception,
\* having applied remove_replicable exactly once to every replicable that
\* was in the scene, and never to a replicable that is not in the scene
C39_DestroyRemovesEachOnce ==
    sc.destroyed =>
        /\ sc.raised = "none"
        /\ DOMAIN sc.scene.replicables = {}
        /\ \A replicable \in sc.present :
              Cardinality({i \in DOMAIN sc.removals : sc.removals[i].replicable = replicable}) = 1
        /\ \A i \in DOMAIN sc.removals : sc.removals[i].in_scene

(***************************************************************************)
(* C40                                                                     *)
(***************************************************************************)
\* C40: in every arrangement of owners that possessed_by and unpossessed
\* can produce, uppermost ends and returns the root of the owner chain of
\* the replicable: a replicable without an owner
C40_UppermostEndsAtRoot ==
    gl.walk.replicable # None =>
        /\ gl.walk.ended
        /\ gl.walk.last # None
        /\ gl.owner[gl.walk.last] = None

====
